---- MODULE Spec2Model ----
(***************************************************************************)
(* The sumurfy Gmail widget (extension/content.js): the extractor, the     *)
(* widget's icon state, the audio elements it creates, the change          *)
(* detection and the summarize episodes (generateSummary), as one state    *)
(* machine.  A browser page runs one handler at a time, so every action    *)
(* below is one handler (or one continuation of an async function between  *)
(* two awaits), run to completion.  The background script                  *)
(* (extension/background.js), which injects the content script into the    *)
(* Gmail tabs, is the second part of the machine.                          *)
(***************************************************************************)
EXTENDS Integers, Sequences, FiniteSets, TLC

(***************************************************************************)
(* Bounds of the model.                                                    *)
(***************************************************************************)
\* generateSummary calls that may be in flight together
MaxEpisodes == 1
\* generateSummary calls that may be in flight together, where they race
RaceEpisodes == 2
\* audio elements that may be alive (able to fire events) together
MaxAudio == 1
\* audio elements that may be alive together, where they overlap
PairAudio == 2
\* pending setTimeout(..., 1000) auto-read callbacks
MaxAutoTimers == 1
\* pending setTimeout(checkForEmailChange, 500) callbacks
MaxCheckTimers == 1
\* length of an audio file in timeupdate ticks
Duration == 1
\* distinct audio URLs the relay may answer with for one message
UrlsPerMessage == 1
\* length of the raw texts the cleaners are run on
TextLen == 4
\* distinct audio URLs the relay may answer with for one message, where a
\* summary is generated again
FreshUrls == 2
\* tab ids
MaxTabs == 2
\* injectWidget calls the history counts for one tab id
MaxStarts == 2
\* executions of content.js the history counts for one page
MaxRuns == 3

(***************************************************************************)
(* Text.  A text is a sequence of characters; the characters are the       *)
(* classes the cleaning regular expressions and String.trim tell apart.    *)
(***************************************************************************)
\* U+0000-U+001F, U+007F-U+009F: "ctl" is a control character that is not
\* white space, "nl" is the line feed (a control character AND white space)
IsControl(c) == c \in {"ctl", "nl"}

\* U+200B-U+200D, U+FEFF
IsZeroWidth(c) == c \in {"zwsp", "bom"}

\* what String.prototype.trim and the regex class \s treat as white space
IsWhiteSpace(c) == c \in {"sp", "nbsp", "nl", "bom"}

RECURSIVE TrimLeft(_)
TrimLeft(s) ==
  IF s = <<>> THEN <<>>
  ELSE IF IsWhiteSpace(Head(s)) THEN TrimLeft(Tail(s)) ELSE s

RECURSIVE TrimRight(_)
TrimRight(s) ==
  IF s = <<>> THEN <<>>
  ELSE IF IsWhiteSpace(s[Len(s)]) THEN TrimRight(SubSeq(s, 1, Len(s) - 1)) ELSE s

Trim(s) == TrimRight(TrimLeft(s))

RECURSIVE RemoveControl(_)
RemoveControl(s) ==
  IF s = <<>> THEN <<>>
  ELSE IF IsControl(Head(s)) THEN RemoveControl(Tail(s))
       ELSE <<Head(s)>> \o RemoveControl(Tail(s))

RECURSIVE RemoveZeroWidth(_)
RemoveZeroWidth(s) ==
  IF s = <<>> THEN <<>>
  ELSE IF IsZeroWidth(Head(s)) THEN RemoveZeroWidth(Tail(s))
       ELSE <<Head(s)>> \o RemoveZeroWidth(Tail(s))

RECURSIVE ReplaceNbsp(_)
ReplaceNbsp(s) ==
  IF s = <<>> THEN <<>>
  ELSE <<IF Head(s) = "nbsp" THEN "sp" ELSE Head(s)>> \o ReplaceNbsp(Tail(s))

\* .replace(/\s+/g, ' ')
RECURSIVE CollapseSpaces(_)
CollapseSpaces(s) ==
  IF s = <<>> THEN <<>>
  ELSE IF IsWhiteSpace(Head(s))
       THEN IF Len(s) > 1 /\ IsWhiteSpace(s[2])
            THEN CollapseSpaces(Tail(s))
            ELSE <<"sp">> \o CollapseSpaces(Tail(s))
       ELSE <<Head(s)>> \o CollapseSpaces(Tail(s))

(***************************************************************************)
(* The page.  A DOM is what the selectors of content.js see of it: the     *)
(* result of querySelector is a sequence of length 0 (null) or 1, the      *)
(* result of querySelectorAll a sequence.  An attribute is a sequence of   *)
(* length 0 (absent) or 1.                                                 *)
(***************************************************************************)
NoEl == <<>>

Tx(c) == <<c>>

Inbox ==
  [h2 |-> NoEl, aria |-> NoEl, gd |-> NoEl, a3s |-> <<>>, th |-> <<>>, mid |-> <<>>]

\* a message with a subject, a sender and a body, addressed by ?th=
MsgPage(subj, who, body, th) ==
  [h2 |-> <<subj>>, aria |-> NoEl,
   gd |-> <<[name |-> <<who>>, email |-> <<Tx("e")>>, hover |-> <<>>, text |-> who]>>,
   a3s |-> <<body>>, th |-> <<th>>, mid |-> <<>>]

\* an image-only message: div.a3s is there and holds no text
ImageOnlyPage(th) ==
  [h2 |-> NoEl, aria |-> NoEl, gd |-> NoEl, a3s |-> <<<<>>>>, th |-> <<th>>, mid |-> <<>>]

Pages ==
  [inbox |-> Inbox,
   a     |-> MsgPage(<<"a">>, <<"x">>, <<"a", "nl", "sp", "a">>, <<"t", "a">>),
   b     |-> MsgPage(<<"nbsp", "b">>, <<"y", "zwsp">>, <<"b">>, <<"t", "b">>),
   img   |-> ImageOnlyPage(<<"t", "i">>)]

PageNames == DOMAIN Pages

\* The JavaScript values that are no string, written as texts of one symbol
\* that is no character: null, undefined, and an exception leaving the
\* function (its completion is a throw)
Null == <<"null">>

Undefined == <<"undefined">>

Thrown == <<"TypeError">>

NotAString == {Null, Undefined, Thrown}

\* ToBoolean of a string, null or undefined
Truthy(v) == v \notin {<<>>, Null, Undefined}

\* a || b
Or(a, b) == IF Truthy(a) THEN a ELSE b

\* el?.getAttribute(a) of the span.gD element: undefined when el is null,
\* null when the element has no such attribute
getAttribute(el, a) ==
  IF el = NoEl THEN Undefined
  ELSE IF el[1][a] = <<>> THEN Null ELSE el[1][a][1]

\* mutant: el => el.textContent.trim(), which throws when el is null
text_Unguarded(el) == IF el = NoEl THEN Thrown ELSE Trim(el[1])

\* const text = el => (el && el.textContent ? el.textContent.trim() : "")
text(el) == IF el = NoEl THEN <<>> ELSE Trim(el[1])

\* document.querySelector("h2.hP") || document.querySelector('[role="heading"]...')
SubjectEl(d) == IF d.h2 # NoEl THEN d.h2 ELSE d.aria

\* text(el) is called outside the try block: what it throws leaves
\* getSubject; .replace of a value that is no string throws inside the try
\* block, whose catch returns subjectText || ""
getSubject(d) ==
  LET subjectText == text(SubjectEl(d)) IN
  IF subjectText = Thrown THEN Thrown
  ELSE IF subjectText \in NotAString THEN Or(subjectText, <<>>)
  ELSE Trim(ReplaceNbsp(RemoveZeroWidth(RemoveControl(subjectText))))

\* el?.getAttribute("name") || text(el)
SenderRawName(d) ==
  Or(getAttribute(d.gd, "name"),
     IF d.gd = NoEl THEN text(NoEl) ELSE text(<<d.gd[1].text>>))

\* el?.getAttribute("email") || el?.getAttribute("data-hovercard-id") || ""
SenderEmail(d) ==
  Or(Or(getAttribute(d.gd, "email"), getAttribute(d.gd, "hover")), <<>>)

\* const name and const email are outside the try block: when text(el)
\* throws, getSender throws (both fields are written Thrown); name.replace of
\* a value that is no string throws inside the try block, whose catch returns
\* { name: name || "", email: email || "" }
getSender(d) ==
  LET name  == SenderRawName(d)
      email == SenderEmail(d)
  IN
  IF name = Thrown THEN [name |-> Thrown, email |-> Thrown]
  ELSE IF name \in NotAString
       THEN [name |-> Or(name, <<>>), email |-> Or(email, <<>>)]
  ELSE [name  |-> Or(Trim(ReplaceNbsp(RemoveZeroWidth(RemoveControl(name)))), <<>>),
        email |-> Or(email, <<>>)]

\* if (!last) return ""; everything after it is inside the try block, whose
\* catch returns ""
getBody(d) ==
  IF d.a3s = <<>> THEN <<>>
  ELSE Trim(CollapseSpaces(ReplaceNbsp(RemoveZeroWidth(RemoveControl(
         Trim(d.a3s[Len(d.a3s)]))))))

isMessageOpen(d) == d.h2 # NoEl \/ d.a3s # <<>>

NoEmail == <<"no-email">>

getCurrentEmailId(d) ==
  IF ~isMessageOpen(d) THEN NoEmail
  ELSE IF d.th # <<>> /\ d.th[1] # <<>> THEN d.th[1]
  ELSE IF d.mid # <<>> /\ d.mid[1] # <<>> THEN d.mid[1]
  ELSE IF SubjectEl(d) # NoEl /\ d.gd # NoEl
       THEN text(SubjectEl(d)) \o <<"-">> \o Trim(d.gd[1].text)
       ELSE NoEmail

\* the test of autoReadCurrentEmail: !subject && !sender.name && !body
Unreadable(d) == getSubject(d) = <<>> /\ getSender(d).name = <<>> /\ getBody(d) = <<>>

(***************************************************************************)
(* The state.                                                              *)
(***************************************************************************)
VARIABLES
  dom,            \* the page shown (a name of Pages)
  currentEmailId, \* setupEmailChangeDetection's let currentEmailId
  active,         \* #sumurfy-icon has class "active"
  loading,        \* #sumurfy-icon has class "loading"
  progress,       \* 0: no class "progress"; k > 0: the gradient shows k/Duration
  glyph,          \* the svg in .icon-text: "speaker", "play", "pause" or
                  \* "check" (the mark showServerStatus draws)
  download,       \* #sumurfy-download is displayed
  speechData,     \* window.speechData: <<>> (null) or <<[audioFile |-> url]>>
  currentAudio,   \* window.currentAudio: 0 (null) or an index of audios
  isPlaying,      \* window.isPlaying
  isPaused,       \* window.isPaused
  audios,         \* the audio elements created and still able to fire events
  episodes,       \* the generateSummary calls, each at its await
  autoTimers,     \* pending setTimeout(() => ... autoReadCurrentEmail(), 1000)
  checkTimers,    \* pending setTimeout(checkForEmailChange, 500)
  statusCheck,    \* the startup server-status check: "timer" (its 3 s timer
                  \* is pending), "fetch" (its /health request is in flight)
                  \* or "done"
  last,           \* history: what the handler that ran last logged to the
                  \* console, the episode it ended (FreeEp if none),
                  \* whether it was checkForEmailChange, and what it returned
                  \* or passed to sendResponse
  injectedTabs,   \* background.js: const injectedTabs = new Set()
  tabs,           \* the browser's tabs, each with the page it shows
  chains,         \* the promise chains of injectWidget, for each tab id the
                  \* number of them at each of their awaits
  queryPending,   \* the tabs.query of the onInstalled listener is unanswered
  declared        \* the manifest declares content.js as a content script of
                  \* mail.google.com (the browser then runs it in every such
                  \* page by itself)

vars ==
  <<dom, currentEmailId, active, loading, progress, glyph, download, speechData,
    currentAudio, isPlaying, isPaused, audios, episodes, autoTimers, checkTimers,
    statusCheck,
    last,
    injectedTabs, tabs, chains, queryPending, declared>>

\* the state of the background script and of the browser's tabs
backgroundVars == <<injectedTabs, tabs, chains, queryPending, declared>>

\* the state of the content script of one page
widgetVars ==
  <<dom, currentEmailId, active, loading, progress, glyph, download, speechData,
    currentAudio, isPlaying, isPaused, audios, episodes, autoTimers, checkTimers,
    statusCheck, last>>

NoUrl == <<>>

\* the URL at which the relay serves the n-th audio it made for message p
Url(p, n) == <<p, n>>

\* url: the src; playing: not paused; loaded: canplay has fired; pos:
\* currentTime; dead: the error event has fired; fresh (history): a message
\* change released the element and no episode has started since
FreeAudio ==
  [alive |-> FALSE, url |-> NoUrl, playing |-> FALSE, loaded |-> FALSE,
   pos |-> 0, dead |-> FALSE, fresh |-> FALSE]

\* pc: the await generateSummary is at; page: the message emailData was read
\* from; id: that message's identity (history); retries: let retries;
\* attempts / probes: requests sent to /summarize and /health (history);
\* delay: the back-off being waited, in seconds; result, url: how it ended and
\* the speech.audioFile it was answered (history); stale (history): message-
\* change detection has since recorded another identity than id; lastError:
\* let lastError, the fetchError of the k-th attempt being written k (0: none)
FreeEp ==
  [pc |-> "free", page |-> "inbox", id |-> NoEmail, retries |-> 0, attempts |-> 0,
   probes |-> 0, delay |-> 0, result |-> "none", url |-> NoUrl, stale |-> FALSE,
   lastError |-> 0]

\* The program state as one record, so that a handler is a function of it.
\* overflow, log and done are no state of the program: a handler sets overflow
\* when it needs more slots than the bounds give, and such a step is not
\* taken; log collects the handler's console.log lines, done is the episode
\* it ended, checked that the handler was checkForEmailChange, sent what it
\* returned or passed to sendResponse, and the four go to the history variable
\* last.
Cur ==
  [dom |-> dom, currentEmailId |-> currentEmailId, active |-> active,
   loading |-> loading, progress |-> progress, glyph |-> glyph,
   download |-> download, speechData |-> speechData,
   currentAudio |-> currentAudio, isPlaying |-> isPlaying, isPaused |-> isPaused,
   audios |-> audios, episodes |-> episodes, autoTimers |-> autoTimers,
   checkTimers |-> checkTimers, statusCheck |-> statusCheck,
   overflow |-> FALSE, log |-> <<>>, done |-> FreeEp, checked |-> FALSE,
   sent |-> <<>>]

InFlight(eps) == {e \in DOMAIN eps : eps[e].pc # "free"}

Min(S) == CHOOSE x \in S : \A y \in S : x <= y

RECURSIVE Pow2(_)
Pow2(n) == IF n <= 0 THEN 1 ELSE 2 * Pow2(n - 1)

(***************************************************************************)
(* Icon helpers.                                                           *)
(***************************************************************************)
showDownloadButton(w) == [w EXCEPT !.download = TRUE]

hideDownloadButton(w) == [w EXCEPT !.download = FALSE]

updateIconToPlay(w) == showDownloadButton([w EXCEPT !.glyph = "play"])

updateIconToPause(w) == showDownloadButton([w EXCEPT !.glyph = "pause"])

updateIconToSpeaker(w) == hideDownloadButton([w EXCEPT !.glyph = "speaker"])

updateCircularProgress(w, p) == [w EXCEPT !.progress = IF p > 0 THEN p ELSE 0]

\* console.log
Log(w, line) == [w EXCEPT !.log = Append(@, line)]

(***************************************************************************)
(* Audio elements.                                                         *)
(***************************************************************************)
\* HTMLMediaElement.pause()
pause(w, a) == [w EXCEPT !.audios[a].playing = FALSE]

\* HTMLMediaElement.play(): an element that failed to load does not play
play(w, a) == [w EXCEPT !.audios[a].playing = ~w.audios[a].dead]

\* audio.currentTime = 0
rewind(w, a) == [w EXCEPT !.audios[a].pos = 0]

\* new Audio(url); setupAudioEventListeners(audio); window.currentAudio = audio
newAudio(w, url) ==
  LET free == {a \in DOMAIN w.audios : ~w.audios[a].alive} IN
  IF free = {} THEN [w EXCEPT !.overflow = TRUE]
  ELSE [w EXCEPT !.audios[Min(free)] = [FreeAudio EXCEPT !.alive = TRUE, !.url = url],
                 !.currentAudio = Min(free)]

\* An element nothing refers to any more and that can fire no further event
\* (it is loaded or broken, and it is not playing) is garbage.
Collect(w) ==
  [w EXCEPT !.audios =
     [a \in DOMAIN w.audios |->
        IF /\ w.audios[a].alive
           /\ a # w.currentAudio
           /\ ~w.audios[a].playing
           /\ (w.audios[a].loaded \/ w.audios[a].dead)
        THEN FreeAudio ELSE w.audios[a]]]

(***************************************************************************)
(* The widget's handlers, each a function of the program state.            *)
(***************************************************************************)
\* mutant: the play/pause flags are not reset
resetWidgetState_KeepsFlags(w) ==
  LET w1 == [w EXCEPT !.active = FALSE, !.loading = FALSE, !.progress = 0]
      w2 == IF w1.currentAudio # 0
            THEN [rewind(pause(w1, w1.currentAudio), w1.currentAudio)
                    EXCEPT !.currentAudio = 0,
                           !.audios[w1.currentAudio].fresh = TRUE]
            ELSE w1
  IN  hideDownloadButton(updateIconToSpeaker(updateCircularProgress(w2, 0)))

resetWidgetState(w) ==
  LET w1 == [w EXCEPT !.active = FALSE, !.loading = FALSE, !.progress = 0]
      w2 == IF w1.currentAudio # 0
            THEN [rewind(pause(w1, w1.currentAudio), w1.currentAudio)
                    EXCEPT !.currentAudio = 0,
                           !.audios[w1.currentAudio].fresh = TRUE]
            ELSE w1
      w3 == [w2 EXCEPT !.isPlaying = FALSE, !.isPaused = FALSE]
  IN  hideDownloadButton(updateIconToSpeaker(updateCircularProgress(w3, 0)))

\* generateSummary up to its first await: the fetch of /health is sent
generateSummary(w) ==
  LET free == {e \in DOMAIN w.episodes : w.episodes[e].pc = "free"} IN
  IF free = {} THEN [w EXCEPT !.overflow = TRUE]
  ELSE Log([w EXCEPT !.episodes[Min(free)] =
              [FreeEp EXCEPT !.pc = "probe", !.page = w.dom,
                             !.id = getCurrentEmailId(Pages[w.dom]), !.probes = 1],
                     !.audios = [a \in DOMAIN w.audios |->
                                   [w.audios[a] EXCEPT !.fresh = FALSE]]],
           "Starting summary generation")

HasAudioFile(w) == w.speechData # <<>> /\ w.speechData[1].audioFile # NoUrl

\* mutant: the all-empty test is missing
autoReadCurrentEmail_NoEmptyCheck(w) ==
  IF ~isMessageOpen(Pages[w.dom]) THEN Log(w, "No email open")
  ELSE IF HasAudioFile(w) THEN Log(w, "Audio already available")
  ELSE generateSummary(Log([w EXCEPT !.active = TRUE, !.loading = TRUE],
                           "Auto-generating summary"))

\* mutant: the test for a cached audio file is missing
autoReadCurrentEmail_NoCacheCheck(w) ==
  IF ~isMessageOpen(Pages[w.dom]) THEN Log(w, "No email open")
  ELSE LET w1 == Log([w EXCEPT !.active = TRUE, !.loading = TRUE],
                     "Auto-generating summary")
       IN
       IF Unreadable(Pages[w.dom])
       THEN Log([w1 EXCEPT !.active = FALSE, !.loading = FALSE],
                "Could not read this email")
       ELSE generateSummary(w1)

autoReadCurrentEmail(w) ==
  IF ~isMessageOpen(Pages[w.dom]) THEN Log(w, "No email open")
  ELSE IF HasAudioFile(w) THEN Log(w, "Audio already available")
  ELSE LET w1 == Log([w EXCEPT !.active = TRUE, !.loading = TRUE],
                     "Auto-generating summary")
       IN
       IF Unreadable(Pages[w.dom])
       THEN Log([w1 EXCEPT !.active = FALSE, !.loading = FALSE],
                "Could not read this email")
       ELSE generateSummary(w1)

handlePlayPause(w) ==
  IF ~HasAudioFile(w) THEN w
  ELSE IF w.currentAudio # 0 /\ w.isPlaying
       THEN updateIconToPlay([pause(w, w.currentAudio)
                                EXCEPT !.isPlaying = FALSE, !.isPaused = TRUE])
  ELSE IF w.currentAudio # 0 /\ w.isPaused
       THEN updateIconToPause([play(w, w.currentAudio)
                                 EXCEPT !.isPlaying = TRUE, !.isPaused = FALSE])
  ELSE IF w.currentAudio # 0 /\ ~w.isPlaying /\ ~w.isPaused
       THEN updateIconToPause([play(w, w.currentAudio)
                                 EXCEPT !.isPlaying = TRUE, !.isPaused = FALSE])
  ELSE LET w1 == IF w.currentAudio # 0
                 THEN rewind(pause(w, w.currentAudio), w.currentAudio) ELSE w
           w2 == newAudio(w1, w1.speechData[1].audioFile)
       IN  IF w2.overflow THEN w2
           ELSE updateIconToPause([play(w2, w2.currentAudio)
                                     EXCEPT !.isPlaying = TRUE, !.isPaused = FALSE])

\* mutant: the first click does not clear window.speechData
handleIconClick_KeepsCache(w) ==
  LET w0 == Log(w, "Icon clicked") IN
  IF w0.active THEN handlePlayPause(Log(w0, "Icon is active"))
  ELSE IF w0.loading THEN Log(w0, "ignoring click")
  ELSE autoReadCurrentEmail(
         Log([w0 EXCEPT !.active = TRUE, !.loading = TRUE], "First click"))

\* mutant: the else-if branch for the loading class is missing
handleIconClick_NoLoadingCheck(w) ==
  LET w0 == Log(w, "Icon clicked") IN
  IF w0.active THEN handlePlayPause(Log(w0, "Icon is active"))
  ELSE autoReadCurrentEmail(
         Log([w0 EXCEPT !.active = TRUE, !.loading = TRUE, !.speechData = <<>>],
             "First click"))

handleIconClick(w) ==
  LET w0 == Log(w, "Icon clicked") IN
  IF w0.active THEN handlePlayPause(Log(w0, "Icon is active"))
  ELSE IF w0.loading THEN Log(w0, "ignoring click")
  ELSE autoReadCurrentEmail(
         Log([w0 EXCEPT !.active = TRUE, !.loading = TRUE, !.speechData = <<>>],
             "First click"))

\* the click listener of #sumurfy-download: the link to the audio file is
\* made and clicked, unless nothing is cached
handleDownloadClick(w) ==
  IF ~HasAudioFile(w) THEN Log(w, "No audio file available for download")
  ELSE Log(Log(w, "Starting download"), "Download initiated")

\* setTimeout(() => { if (isMessageOpen()) autoReadCurrentEmail(); }, 1000)
scheduleAutoRead(w) ==
  IF w.autoTimers >= MaxAutoTimers THEN [w EXCEPT !.overflow = TRUE]
  ELSE [w EXCEPT !.autoTimers = @ + 1]

\* mutant: the comparison with the recorded identity is missing
checkForEmailChange_NoCompare(wIn) ==
  LET w == [wIn EXCEPT !.checked = TRUE]
      newEmailId == getCurrentEmailId(Pages[w.dom])
      w1 == resetWidgetState(
              Log([w EXCEPT !.currentEmailId = newEmailId], "Email change detected"))
  IN
  IF newEmailId # NoEmail THEN scheduleAutoRead(w1) ELSE w1

checkForEmailChange(wIn) ==
  LET w == [wIn EXCEPT !.checked = TRUE]
      newEmailId == getCurrentEmailId(Pages[w.dom])
  IN
  IF newEmailId # w.currentEmailId
  THEN LET w0 == [w EXCEPT !.episodes =
                       [e \in DOMAIN w.episodes |->
                          IF w.episodes[e].pc = "free" THEN w.episodes[e]
                          ELSE [w.episodes[e] EXCEPT
                                  !.stale = (w.episodes[e].id # newEmailId)]]]
           w1 == resetWidgetState(
                    Log([w0 EXCEPT !.currentEmailId = newEmailId],
                        "Email change detected"))
       IN
       IF newEmailId # NoEmail THEN scheduleAutoRead(w1) ELSE w1
  ELSE w

\* the callback of an auto-read timer
autoReadTimeout(w) ==
  IF isMessageOpen(Pages[w.dom]) THEN autoReadCurrentEmail(w) ELSE w

\* the MutationObserver callback: a node with a heading or a sender was added
mutationObserved(w) ==
  IF w.checkTimers >= MaxCheckTimers THEN [w EXCEPT !.overflow = TRUE]
  ELSE [w EXCEPT !.checkTimers = @ + 1]

hasNewEmail(d) == d.h2 # NoEl \/ d.aria # NoEl \/ d.gd # NoEl

(***************************************************************************)
(* The startup server-status check.                                        *)
(***************************************************************************)
\* showServerStatus up to the await in checkServerStatus: /health is fetched
showServerStatus(w) == [w EXCEPT !.statusCheck = "fetch"]

\* the .then of showServerStatus; isRunning is what checkServerStatus returns
serverStatusDone(w, isRunning) ==
  LET w1 == [w EXCEPT !.statusCheck = "done"] IN
  IF ~isRunning THEN [w1 EXCEPT !.glyph = "check"]
  ELSE updateIconToSpeaker(w1)

(***************************************************************************)
(* The chrome.runtime.onMessage listener.                                  *)
(***************************************************************************)
sendResponse(w, response) == [w EXCEPT !.sent = Append(@, response)]

\* the data of an ok response
Extraction(d) ==
  [subject |-> getSubject(d), sender |-> getSender(d), body |-> getBody(d)]

\* mutant: the test for an all-empty extraction is missing
onMessage_NoEmptyCheck(w, type) ==
  IF type = "PING"
  THEN sendResponse(Log(w, "Message received: PING"),
                    [ok |-> TRUE, message |-> "Content script is loaded"])
  ELSE IF type = "EXTRACT_EMAIL"
  THEN LET w0 == Log(w, "Message received: EXTRACT_EMAIL") IN
       IF ~isMessageOpen(Pages[w.dom])
       THEN sendResponse(w0, [ok |-> FALSE, error |-> "No email open"])
       ELSE IF getSubject(Pages[w.dom]) = Thrown \/ getSender(Pages[w.dom]).name = Thrown
            THEN sendResponse(w0, [ok |-> FALSE, error |-> "Error reading email"])
       ELSE sendResponse(w0, [ok |-> TRUE, data |-> Extraction(Pages[w.dom])])
  ELSE Log(w, "Message received")

\* the listener: type is request.type ("PING", "EXTRACT_EMAIL" or another);
\* an exception of the extractor is caught and answered with an error
onMessage(w, type) ==
  IF type = "PING"
  THEN sendResponse(Log(w, "Message received: PING"),
                    [ok |-> TRUE, message |-> "Content script is loaded"])
  ELSE IF type = "EXTRACT_EMAIL"
  THEN LET w0 == Log(w, "Message received: EXTRACT_EMAIL") IN
       IF ~isMessageOpen(Pages[w.dom])
       THEN sendResponse(w0, [ok |-> FALSE, error |-> "No email open"])
       ELSE IF getSubject(Pages[w.dom]) = Thrown \/ getSender(Pages[w.dom]).name = Thrown
            THEN sendResponse(w0, [ok |-> FALSE, error |-> "Error reading email"])
       ELSE IF Unreadable(Pages[w.dom])
            THEN sendResponse(w0, [ok |-> FALSE, error |-> "Could not read this email"])
       ELSE sendResponse(w0, [ok |-> TRUE, data |-> Extraction(Pages[w.dom])])
  ELSE Log(w, "Message received")

(***************************************************************************)
(* The continuations of generateSummary.                                   *)
(***************************************************************************)
\* the catch block of generateSummary
summaryFailed(w) ==
  updateCircularProgress(
    updateIconToSpeaker([w EXCEPT !.loading = FALSE, !.active = FALSE]), 0)

\* the episode returns: its slot is free again
endEpisode(w, e, result) ==
  [w EXCEPT !.episodes[e] = FreeEp, !.done = [w.episodes[e] EXCEPT !.result = result]]

\* let retries = 3, and the first fetch of /summarize is sent
startRetryLoop(w, e) ==
  [w EXCEPT !.episodes[e].pc = "attempt", !.episodes[e].retries = 3,
            !.episodes[e].attempts = @ + 1]

\* mutant: without xhr.timeout = 5000 the synchronous request is sent
XhrOutcomes_Sent == {"200", "500"}

\* What the synchronous XMLHttpRequest fallback can do.  The code sets
\* xhr.timeout = 5000 and then calls xhr.open(..., false): in a page (a Window
\* global) open() of a synchronous request with a timeout throws
\* InvalidAccessError before anything is sent, so the status 200 branch of the
\* fallback, which probeDone keeps, is never taken.
XhrOutcomes == {"InvalidAccessError"}

\* mutant: a failed probe that is no network error goes on to /summarize
probeDone_FallbackTrusted(w, e, outcome, xhr) ==
  IF outcome = "ok" THEN startRetryLoop(w, e)
  ELSE LET w1 == Log(w, "Connectivity test failed") IN
       IF outcome = "failedToFetch"
       THEN endEpisode(summaryFailed(
              updateIconToSpeaker([w1 EXCEPT !.loading = FALSE, !.active = FALSE])),
              e, "probeFailed")
       ELSE startRetryLoop(w1, e)

\* await fetch('/health') returns: "ok" (response.ok), "failedToFetch" (the
\* TypeError 'Failed to fetch' of a network error) or "notOk" (another status
\* or error, which falls back to XMLHttpRequest)
probeDone(w, e, outcome, xhr) ==
  IF outcome = "ok" THEN startRetryLoop(w, e)
  ELSE LET w1 == Log(w, "Connectivity test failed") IN
       IF outcome = "failedToFetch"
       THEN endEpisode(summaryFailed(
              updateIconToSpeaker([w1 EXCEPT !.loading = FALSE, !.active = FALSE])),
              e, "probeFailed")
       ELSE LET w2 == Log(w1, "Trying XMLHttpRequest fallback") IN
            IF xhr = "200"
            THEN startRetryLoop([w2 EXCEPT !.episodes[e].probes = @ + 1], e)
            ELSE IF xhr = "InvalidAccessError"
            THEN endEpisode(summaryFailed(w2), e, "probeFailed")
            ELSE endEpisode(summaryFailed([w2 EXCEPT !.episodes[e].probes = @ + 1]),
                            e, "probeFailed")

\* const delay = Math.pow(2, 3 - retries) * 1000, in seconds
backoffDelay(retries) == Pow2(3 - retries)

\* mutant: if (retries >= 0) instead of if (retries > 0)
attemptDone_OneMoreRetry(w, e, ok) ==
  IF ok THEN [w EXCEPT !.episodes[e].pc = "json"]
  ELSE LET retries == w.episodes[e].retries - 1 IN
       IF retries >= 0
       THEN [w EXCEPT !.episodes[e].retries = retries,
                      !.episodes[e].pc = "backoff",
                      !.episodes[e].delay = backoffDelay(retries)]
       ELSE endEpisode(summaryFailed(w), e, "exhausted")

\* await fetch('/summarize') returns: ok is response.ok; anything else (another
\* status, a network error) is caught by the loop
attemptDone(w, e, ok) ==
  IF ok THEN [w EXCEPT !.episodes[e].pc = "json"]
  ELSE LET retries == w.episodes[e].retries - 1
           w1 == [w EXCEPT !.episodes[e].lastError = w.episodes[e].attempts,
                           !.episodes[e].retries = retries]
       IN
       IF retries > 0
       THEN [w1 EXCEPT !.episodes[e].pc = "backoff",
                       !.episodes[e].delay = backoffDelay(retries)]
       ELSE endEpisode(summaryFailed(w1), e, "exhausted")

\* the back-off timer fires: the while loop sends the next fetch
backoffDone(w, e) ==
  [w EXCEPT !.episodes[e].pc = "attempt", !.episodes[e].delay = 0,
            !.episodes[e].attempts = @ + 1]

\* What await response.json() gives: "throws" (the body is no JSON),
\* "rejected" (success false), "noAudio" (success true, no speech.audioFile)
\* or "audio" (success true, speech.audioFile the n-th URL of the message)
JsonResults == {"throws", "rejected", "noAudio", "audio"}

\* mutant: updateIconToSpeaker is called after updateIconToPlay
jsonDone_SpeakerLast(w, e, result, n) ==
  IF result = "throws" THEN endEpisode(summaryFailed(w), e, result)
  ELSE IF result = "rejected" THEN endEpisode(summaryFailed(w), e, result)
  ELSE LET w1 == [w EXCEPT !.loading = FALSE] IN
       IF result = "audio"
       THEN endEpisode(updateIconToSpeaker(updateIconToPlay(
              [w1 EXCEPT !.speechData =
                           <<[audioFile |-> Url(w.episodes[e].page, n)]>>,
                         !.episodes[e].url = Url(w.episodes[e].page, n)])),
              e, result)
       ELSE endEpisode(w1, e, result)

\* mutant: await response.json() is outside the try block, so that its
\* exception leaves generateSummary uncaught
jsonDone_Uncaught(w, e, result, n) ==
  IF result = "throws" THEN endEpisode(w, e, "uncaught")
  ELSE IF result = "rejected" THEN endEpisode(summaryFailed(w), e, result)
  ELSE LET w1 == [w EXCEPT !.loading = FALSE] IN
       IF result = "audio"
       THEN endEpisode(updateIconToPlay(updateIconToSpeaker(
              [w1 EXCEPT !.speechData =
                           <<[audioFile |-> Url(w.episodes[e].page, n)]>>,
                         !.episodes[e].url = Url(w.episodes[e].page, n)])),
              e, result)
       ELSE endEpisode(w1, e, result)

jsonDone(w, e, result, n) ==
  IF result = "throws" THEN endEpisode(summaryFailed(w), e, result)
  ELSE IF result = "rejected" THEN endEpisode(summaryFailed(w), e, result)
  ELSE LET w1 == [w EXCEPT !.loading = FALSE] IN
       IF result = "audio"
       THEN endEpisode(updateIconToPlay(updateIconToSpeaker(
              [w1 EXCEPT !.speechData =
                           <<[audioFile |-> Url(w.episodes[e].page, n)]>>,
                         !.episodes[e].url = Url(w.episodes[e].page, n)])),
              e, result)
       ELSE endEpisode(w1, e, result)

(***************************************************************************)
(* The listeners of an audio element (setupAudioEventListeners).           *)
(***************************************************************************)
\* canplay: playOk tells whether audio.play() resolves
onCanPlay(w, a, playOk) ==
  LET w1 == Log([w EXCEPT !.loading = FALSE, !.audios[a].loaded = TRUE],
                "Audio ready to play")
  IN
  IF playOk
  THEN updateIconToPause([play(w1, a) EXCEPT !.isPlaying = TRUE, !.isPaused = FALSE])
  ELSE updateIconToPlay(w1)

\* mutant: the timeupdate listener also records that the element plays
onTimeUpdate_MarksPlaying(w, a, pos) ==
  updateCircularProgress(
    [w EXCEPT !.audios[a].pos = pos, !.isPlaying = TRUE, !.isPaused = FALSE], pos)

\* timeupdate: the element has advanced to pos
onTimeUpdate(w, a, pos) ==
  updateCircularProgress([w EXCEPT !.audios[a].pos = pos], pos)

\* mutant: icon.classList.remove('active') is missing
onEnded_KeepsActive(w, a) ==
  LET w1 == Log([w EXCEPT !.audios[a].playing = FALSE, !.isPlaying = FALSE,
                          !.isPaused = FALSE],
                "Audio playback ended")
  IN  showDownloadButton(updateCircularProgress(updateIconToSpeaker(w1), 0))

onEnded(w, a) ==
  LET w1 == Log([w EXCEPT !.audios[a].playing = FALSE, !.isPlaying = FALSE,
                          !.isPaused = FALSE],
                "Audio playback ended")
  IN  showDownloadButton(updateCircularProgress(
        [updateIconToSpeaker(w1) EXCEPT !.active = FALSE], 0))

onError(w, a) ==
  LET w1 == Log([w EXCEPT !.audios[a].playing = FALSE, !.audios[a].dead = TRUE,
                          !.isPlaying = FALSE, !.isPaused = FALSE],
                "Audio error")
  IN  hideDownloadButton(updateCircularProgress(
        [updateIconToSpeaker(w1) EXCEPT !.active = FALSE, !.loading = FALSE], 0))

(***************************************************************************)
(* The background script (extension/background.js) and what it sees of the *)
(* browser: the tabs, each with the page it shows, and the promise chains  *)
(* of injectWidget.  A page is what the executions of content.js have made *)
(* in it.                                                                  *)
(***************************************************************************)
Tabs == 1..MaxTabs

\* idle: the document has reached document_idle, when the browser runs the
\* scripts injected into it; loaded: window.gmailReaderLoaded; runs (history):
\* executions of content.js; widgets: #sumurfy-widget elements; clickListeners:
\* calls of setupWidgetEventListeners; intervals: setInterval(checkForEmailChange)
\* timers; observers: mutation observers; messageListeners: listeners of
\* chrome.runtime.onMessage; declaredRan: the browser has run the content
\* script the manifest declares
FreshPage ==
  [idle |-> FALSE, loaded |-> FALSE, runs |-> 0, widgets |-> 0, clickListeners |-> 0,
   intervals |-> 0, observers |-> 0, messageListeners |-> 0, declaredRan |-> FALSE]

\* gmail: the URL contains mail.google.com; status: "loading" or "complete";
\* starts (history): the injectWidget calls for this tab id since the id was
\* last removed from injectedTabs whose promise chain has not failed
ClosedTab ==
  [open |-> FALSE, gmail |-> FALSE, status |-> "none", page |-> FreshPage,
   starts |-> 0]

\* the chains of one tab id: css are at insertCSS, script at executeScript,
\* then have run the script and still are to add the id to injectedTabs
NoChains == [css |-> 0, script |-> 0, then |-> 0]

InFlightChains(c) == c.css + c.script + c.then

\* the background script has started and no tab is open
BackgroundAtRest ==
  /\ injectedTabs = {}
  /\ tabs = [t \in Tabs |-> ClosedTab]
  /\ chains = [t \in Tabs |-> NoChains]
  /\ queryPending = FALSE
  /\ declared = FALSE

\* createSumurfyWidget: the element and its click listeners are made unless
\* #sumurfy-widget exists
createSumurfyWidget(pg) ==
  IF pg.widgets > 0 THEN pg
  ELSE [pg EXCEPT !.widgets = @ + 1, !.clickListeners = @ + 1]

\* setInterval(checkForEmailChange, 1000) and observer.observe(document.body)
setupEmailChangeDetection(pg) ==
  [pg EXCEPT !.intervals = @ + 1, !.observers = @ + 1]

initializeWidget(pg) == setupEmailChangeDetection(createSumurfyWidget(pg))

\* mutant: the test of window.gmailReaderLoaded is missing
contentScript_NoGuard(pg, gmail) ==
  LET p1 == [pg EXCEPT !.runs = @ + 1, !.loaded = TRUE, !.messageListeners = @ + 1]
  IN  IF gmail THEN initializeWidget(p1) ELSE p1

\* One execution of content.js in the top frame of a page, which has reached
\* document_idle (document.readyState is not 'loading', so initializeWhenReady
\* calls initializeWidget at once): the guard throws when the script has run
\* in the page before; initializeSumurfy returns early when the page is not
\* Gmail; the message listener is added at the end of the script.
contentScript(pg, gmail) ==
  LET p1 == [pg EXCEPT !.runs = @ + 1] IN
  IF pg.loaded THEN p1
  ELSE LET p2 == [p1 EXCEPT !.loaded = TRUE, !.messageListeners = @ + 1] IN
       IF gmail THEN initializeWidget(p2) ELSE p2

\* The state of the background script as one record, so that a listener is a
\* function of it; overflow as in Cur.
Background ==
  [injectedTabs |-> injectedTabs, tabs |-> tabs, chains |-> chains,
   queryPending |-> queryPending, overflow |-> FALSE]

\* injectWidget up to the call of chrome.scripting.insertCSS
injectWidget(b, tabId) ==
  IF b.tabs[tabId].starts >= MaxStarts THEN [b EXCEPT !.overflow = TRUE]
  ELSE [b EXCEPT !.chains[tabId].css = @ + 1, !.tabs[tabId].starts = @ + 1]

\* tabs.forEach(tab => { if (!injectedTabs.has(tab.id)) injectWidget(tab.id) })
RECURSIVE injectEach(_, _)
injectEach(b, T) ==
  IF T = {} THEN b
  ELSE LET t == Min(T) IN
       injectEach(IF t \in b.injectedTabs THEN b ELSE injectWidget(b, t), T \ {t})

\* the callback of chrome.tabs.query({ url: '*://mail.google.com/*' })
onInstalledQuery(b) ==
  injectEach([b EXCEPT !.queryPending = FALSE],
             {t \in Tabs : b.tabs[t].open /\ b.tabs[t].gmail})

\* the chrome.tabs.onUpdated listener, called with changeInfo.status 'complete'
onUpdated(b, tabId) ==
  IF b.tabs[tabId].gmail /\ tabId \notin b.injectedTabs
  THEN injectWidget(b, tabId) ELSE b

\* the chrome.tabs.onRemoved listener
onRemoved(b, tabId) == [b EXCEPT !.injectedTabs = @ \ {tabId}]

\* the chrome.tabs.onReplaced listener
onReplaced(b, addedTabId, removedTabId) ==
  [b EXCEPT !.injectedTabs = @ \ {removedTabId}]

\* the chrome.runtime.onMessage listener, called with a CREATE_WIDGET request
\* whose sender is a content script of tab tabId
onCreateWidget(b, tabId) ==
  IF tabId \notin b.injectedTabs THEN injectWidget(b, tabId) ELSE b

\* the .catch of injectWidget: the chain has failed
injectionFailed(b, tabId) ==
  [b EXCEPT !.tabs[tabId].starts = IF @ > 0 THEN @ - 1 ELSE 0]

\* the second .then of injectWidget
injectionDone(b, tabId) ==
  [b EXCEPT !.injectedTabs = @ \cup {tabId}, !.chains[tabId].then = @ - 1]

CommitBackground(n) ==
  /\ ~n.overflow
  /\ injectedTabs' = n.injectedTabs
  /\ tabs' = n.tabs
  /\ chains' = n.chains
  /\ queryPending' = n.queryPending
  /\ UNCHANGED <<declared, widgetVars>>

\* a tab is opened on a page, or an open tab is navigated or reloaded: it
\* shows a new document (the id of a closed tab that the background script
\* still works on, or still holds as injected, is not given to a new tab)
TabLoads(t, gmail) ==
  /\ ~tabs[t].open => (InFlightChains(chains[t]) = 0 /\ t \notin injectedTabs)
  /\ CommitBackground(
       [Background EXCEPT !.tabs[t] =
          [open |-> TRUE, gmail |-> gmail, status |-> "loading", page |-> FreshPage,
           starts |-> tabs[t].starts]])

\* Gmail navigates inside its document (the URL fragment changes): the tab
\* reports loading again and keeps its page
SameDocumentNavigation(t) ==
  /\ tabs[t].open /\ tabs[t].gmail /\ tabs[t].status = "complete"
  /\ CommitBackground([Background EXCEPT !.tabs[t].status = "loading"])

PageIdle(t) ==
  /\ tabs[t].open /\ ~tabs[t].page.idle
  /\ CommitBackground([Background EXCEPT !.tabs[t].page.idle = TRUE])

\* the browser runs the content script the manifest declares
DeclaredScriptRuns(t) ==
  /\ declared
  /\ tabs[t].open /\ tabs[t].gmail /\ tabs[t].page.idle /\ ~tabs[t].page.declaredRan
  /\ tabs[t].page.runs < MaxRuns
  /\ CommitBackground(
       [Background EXCEPT !.tabs[t].page =
          [contentScript(tabs[t].page, TRUE) EXCEPT !.declaredRan = TRUE]])

\* the tab reports status complete
TabComplete(t) ==
  /\ tabs[t].open /\ tabs[t].status = "loading"
  /\ CommitBackground(onUpdated([Background EXCEPT !.tabs[t].status = "complete"], t))

QueryAnswered ==
  /\ queryPending
  /\ CommitBackground(onInstalledQuery(Background))

CreateWidgetMessage(t) ==
  /\ tabs[t].open /\ tabs[t].page.loaded
  /\ CommitBackground(onCreateWidget(Background, t))

TabRemoved(t) ==
  /\ tabs[t].open
  /\ CommitBackground(onRemoved([Background EXCEPT !.tabs[t] = ClosedTab], t))

\* the browser swaps the prerendered tab added for the tab removed
TabReplaced(added, removed, gmail) ==
  /\ added # removed
  /\ tabs[removed].open
  /\ ~tabs[added].open /\ InFlightChains(chains[added]) = 0
  /\ added \notin injectedTabs
  /\ CommitBackground(onReplaced(
       [Background EXCEPT
          !.tabs[removed] = ClosedTab,
          !.tabs[added] =
             [open |-> TRUE, gmail |-> gmail, status |-> "loading", page |-> FreshPage,
              starts |-> 0]],
       added, removed))

\* chrome.scripting.insertCSS settles: it is rejected when the tab is gone
CssInserted(t, ok) ==
  /\ chains[t].css > 0
  /\ ok => tabs[t].open
  /\ CommitBackground(
       IF ok THEN [Background EXCEPT !.chains[t].css = @ - 1, !.chains[t].script = @ + 1]
       ELSE injectionFailed([Background EXCEPT !.chains[t].css = @ - 1], t))

\* chrome.scripting.executeScript settles: content.js has been run in the page
\* the tab shows (at document_idle), or the call is rejected
ScriptExecuted(t, ok) ==
  /\ chains[t].script > 0
  /\ ok => (tabs[t].open /\ tabs[t].page.idle /\ tabs[t].page.runs < MaxRuns)
  /\ CommitBackground(
       IF ok
       THEN [Background EXCEPT !.chains[t].script = @ - 1, !.chains[t].then = @ + 1,
                               !.tabs[t].page = contentScript(@, tabs[t].gmail)]
       ELSE injectionFailed([Background EXCEPT !.chains[t].script = @ - 1], t))

ChainResolved(t) ==
  /\ chains[t].then > 0
  /\ CommitBackground(injectionDone(Background, t))

(***************************************************************************)
(* The state machine.                                                      *)
(***************************************************************************)
\* the state after the handler whose result is n
Commit(n) ==
  /\ ~n.overflow
  /\ LET c == Collect(n) IN
       /\ dom' = c.dom
       /\ currentEmailId' = c.currentEmailId
       /\ active' = c.active
       /\ loading' = c.loading
       /\ progress' = c.progress
       /\ glyph' = c.glyph
       /\ download' = c.download
       /\ speechData' = c.speechData
       /\ currentAudio' = c.currentAudio
       /\ isPlaying' = c.isPlaying
       /\ isPaused' = c.isPaused
       /\ audios' = c.audios
       /\ episodes' = c.episodes
       /\ autoTimers' = c.autoTimers
       /\ checkTimers' = c.checkTimers
       /\ statusCheck' = c.statusCheck
       /\ last' = [log |-> c.log, ep |-> c.done, checked |-> c.checked,
                   sent |-> c.sent]
       /\ UNCHANGED backgroundVars

\* createSumurfyWidget (which ends in resetWidgetState), then
\* setupEmailChangeDetection, then the auto-read timer of initializeWidget, on
\* one of the pages P, with room for nEpisodes episodes and nAudio elements
InitWidget(P, nEpisodes, nAudio) ==
  /\ dom \in P
  /\ currentEmailId = getCurrentEmailId(Pages[dom])
  /\ active = FALSE
  /\ loading = FALSE
  /\ progress = 0
  /\ glyph = "speaker"
  /\ download = FALSE
  /\ speechData = <<>>
  /\ currentAudio = 0
  /\ isPlaying = FALSE
  /\ isPaused = FALSE
  /\ audios = [a \in 1..nAudio |-> FreeAudio]
  /\ episodes = [e \in 1..nEpisodes |-> FreeEp]
  /\ autoTimers = IF isMessageOpen(Pages[dom]) THEN 1 ELSE 0
  /\ checkTimers = 0
  /\ last = [log |-> <<>>, ep |-> FreeEp, checked |-> FALSE, sent |-> <<>>]

\* the widget of one page; the background script is left aside
InitOn(P, nEpisodes, nAudio) == InitWidget(P, nEpisodes, nAudio) /\ BackgroundAtRest

\* Spec, SpecRace and SpecAudio take the widget up when the startup
\* server-status check has been answered; SpecStatus has it pending.
Init == InitOn(PageNames, MaxEpisodes, MaxAudio) /\ statusCheck = "done"

\* the user (or Gmail) shows another page; seen: the mutation observer saw a
\* heading or a sender among the added nodes and schedules a check
Navigate(p, seen) ==
  /\ p # dom
  /\ seen => hasNewEmail(Pages[p])
  /\ Commit(IF seen THEN mutationObserved([Cur EXCEPT !.dom = p])
                    ELSE [Cur EXCEPT !.dom = p])

\* setInterval(checkForEmailChange, 1000)
IntervalTick == Commit(checkForEmailChange(Cur))

\* setTimeout(checkForEmailChange, 500) of the mutation observer
CheckTimerFire ==
  /\ checkTimers > 0
  /\ Commit(checkForEmailChange([Cur EXCEPT !.checkTimers = @ - 1]))

AutoReadTimerFire ==
  /\ autoTimers > 0
  /\ Commit(autoReadTimeout([Cur EXCEPT !.autoTimers = @ - 1]))

IconClick == Commit(handleIconClick(Cur))

\* the user clicks the download action, which can be clicked while it is
\* displayed
DownloadClick ==
  /\ download
  /\ Commit(handleDownloadClick(Cur))

ProbeComplete(e, outcome, xhr) ==
  /\ episodes[e].pc = "probe"
  /\ Commit(probeDone(Cur, e, outcome, xhr))

AttemptComplete(e, ok) ==
  /\ episodes[e].pc = "attempt"
  /\ Commit(attemptDone(Cur, e, ok))

BackoffExpire(e) ==
  /\ episodes[e].pc = "backoff"
  /\ Commit(backoffDone(Cur, e))

JsonComplete(e, result, n) ==
  /\ episodes[e].pc = "json"
  /\ Commit(jsonDone(Cur, e, result, n))

\* canplay is fired once, when enough of the file has arrived; play() of an
\* element that is playing already does not fail
AudioCanPlay(a, playOk) ==
  /\ audios[a].alive /\ ~audios[a].loaded /\ ~audios[a].dead
  /\ audios[a].playing => playOk
  /\ Commit(onCanPlay(Cur, a, playOk))

AudioTimeUpdate(a) ==
  /\ audios[a].alive /\ audios[a].loaded /\ audios[a].playing
  /\ audios[a].pos < Duration
  /\ Commit(onTimeUpdate(Cur, a, audios[a].pos + 1))

AudioEnded(a) ==
  /\ audios[a].alive /\ audios[a].loaded /\ audios[a].playing
  /\ audios[a].pos = Duration
  /\ Commit(onEnded(Cur, a))

\* the file fails to load, or fails while it plays
AudioError(a) ==
  /\ audios[a].alive /\ ~audios[a].dead
  /\ ~audios[a].loaded \/ audios[a].playing
  /\ Commit(onError(Cur, a))

\* setTimeout(() => { showServerStatus(); }, 3000) of initializeWidget
ServerStatusTimerFire ==
  /\ statusCheck = "timer"
  /\ Commit(showServerStatus(Cur))

ServerStatusAnswer(isRunning) ==
  /\ statusCheck = "fetch"
  /\ Commit(serverStatusDone(Cur, isRunning))

AudioEvent ==
  \/ \E a \in DOMAIN audios, playOk \in BOOLEAN : AudioCanPlay(a, playOk)
  \/ \E a \in DOMAIN audios : AudioTimeUpdate(a)
  \/ \E a \in DOMAIN audios : AudioEnded(a)
  \/ \E a \in DOMAIN audios : AudioError(a)

Next ==
  \/ \E p \in PageNames, seen \in BOOLEAN : Navigate(p, seen)
  \/ IntervalTick
  \/ CheckTimerFire
  \/ AutoReadTimerFire
  \/ IconClick
  \/ DownloadClick
  \/ \E e \in DOMAIN episodes, outcome \in {"ok", "failedToFetch", "notOk"},
        xhr \in XhrOutcomes : ProbeComplete(e, outcome, xhr)
  \/ \E e \in DOMAIN episodes, ok \in BOOLEAN : AttemptComplete(e, ok)
  \/ \E e \in DOMAIN episodes : BackoffExpire(e)
  \/ \E e \in DOMAIN episodes, result \in JsonResults, n \in 1..UrlsPerMessage :
        JsonComplete(e, result, n)
  \/ AudioEvent

Spec == Init /\ [][Next]_vars

(***************************************************************************)
(* The same widget where episodes can race: room for RaceEpisodes          *)
(* episodes, two messages to switch between, and a backend that is up      *)
(* (every probe and every attempt succeeds; the answer may be a rejection).*)
(***************************************************************************)
RacePages == {"a", "b"}

InitRace == InitOn(RacePages, RaceEpisodes, MaxAudio) /\ statusCheck = "done"

NextRace ==
  \/ \E p \in RacePages, seen \in BOOLEAN : Navigate(p, seen)
  \/ IntervalTick
  \/ CheckTimerFire
  \/ AutoReadTimerFire
  \/ IconClick
  \/ \E e \in DOMAIN episodes, xhr \in XhrOutcomes : ProbeComplete(e, "ok", xhr)
  \/ \E e \in DOMAIN episodes : AttemptComplete(e, TRUE)
  \/ \E e \in DOMAIN episodes, result \in {"rejected", "noAudio", "audio"},
        n \in 1..UrlsPerMessage : JsonComplete(e, result, n)
  \/ AudioEvent

SpecRace == InitRace /\ [][NextRace]_vars

(***************************************************************************)
(* The same widget with room for PairAudio audio elements, one episode at  *)
(* a time, two messages to switch between and a backend that answers every *)
(* episode with audio.                                                     *)
(***************************************************************************)
InitAudio == InitOn(RacePages, MaxEpisodes, PairAudio) /\ statusCheck = "done"

NextAudio ==
  \/ \E p \in RacePages, seen \in BOOLEAN : Navigate(p, seen)
  \/ IntervalTick
  \/ CheckTimerFire
  \/ AutoReadTimerFire
  \/ IconClick
  \/ \E e \in DOMAIN episodes, xhr \in XhrOutcomes : ProbeComplete(e, "ok", xhr)
  \/ \E e \in DOMAIN episodes : AttemptComplete(e, TRUE)
  \/ \E e \in DOMAIN episodes, n \in 1..UrlsPerMessage : JsonComplete(e, "audio", n)
  \/ AudioEvent

SpecAudio == InitAudio /\ [][NextAudio]_vars

(***************************************************************************)
(* The same widget from the end of initializeWidget, the timer of the      *)
(* startup server-status check pending, with two messages to switch        *)
(* between and a backend that answers every episode with audio.            *)
(***************************************************************************)
InitStatus == InitOn(RacePages, MaxEpisodes, MaxAudio) /\ statusCheck = "timer"

NextStatus ==
  \/ NextAudio
  \/ ServerStatusTimerFire
  \/ \E isRunning \in BOOLEAN : ServerStatusAnswer(isRunning)

SpecStatus == InitStatus /\ [][NextStatus]_vars

(***************************************************************************)
(* The widget of Spec, with the inbox and one message to switch between,   *)
(* where every network request eventually completes and every back-off     *)
(* timer eventually fires: the continuation of each episode that waits at  *)
(* an await is eventually run.                                             *)
(***************************************************************************)
LivePages == {"inbox", "a"}

InitLive == InitOn(LivePages, MaxEpisodes, MaxAudio) /\ statusCheck = "done"

\* the request (or the timer) episode e waits for completes
ProbeAnswered(e) ==
  \E outcome \in {"ok", "failedToFetch", "notOk"}, xhr \in XhrOutcomes :
     ProbeComplete(e, outcome, xhr)

AttemptAnswered(e) == \E ok \in BOOLEAN : AttemptComplete(e, ok)

BodyRead(e) ==
  \E result \in JsonResults, n \in 1..UrlsPerMessage : JsonComplete(e, result, n)

RequestsComplete ==
  \A e \in 1..MaxEpisodes :
    /\ WF_vars(ProbeAnswered(e))
    /\ WF_vars(AttemptAnswered(e))
    /\ WF_vars(BackoffExpire(e))
    /\ WF_vars(BodyRead(e))

NextLive ==
  \/ \E p \in LivePages, seen \in BOOLEAN : Navigate(p, seen)
  \/ IntervalTick
  \/ CheckTimerFire
  \/ AutoReadTimerFire
  \/ IconClick
  \/ \E e \in DOMAIN episodes : ProbeAnswered(e)
  \/ \E e \in DOMAIN episodes : AttemptAnswered(e)
  \/ \E e \in DOMAIN episodes : BackoffExpire(e)
  \/ \E e \in DOMAIN episodes : BodyRead(e)
  \/ AudioEvent

SpecLive == InitLive /\ [][NextLive]_vars /\ RequestsComplete

(***************************************************************************)
(* The same widget with the popup (or any other extension page) sending    *)
(* it messages: one episode and one audio element at a time, the inbox, a  *)
(* message and an image-only message to switch between, and a backend that *)
(* answers every episode with audio.                                       *)
(***************************************************************************)
MessagePages == {"inbox", "a", "img"}

\* request.type: the two the listener knows, and any other
MessageTypes == {"PING", "EXTRACT_EMAIL", "OTHER"}

InitMessage == InitOn(MessagePages, MaxEpisodes, MaxAudio) /\ statusCheck = "done"

RuntimeMessage(type) == Commit(onMessage(Cur, type))

NextMessage ==
  \/ \E p \in MessagePages, seen \in BOOLEAN : Navigate(p, seen)
  \/ IntervalTick
  \/ CheckTimerFire
  \/ AutoReadTimerFire
  \/ IconClick
  \/ \E e \in DOMAIN episodes, xhr \in XhrOutcomes : ProbeComplete(e, "ok", xhr)
  \/ \E e \in DOMAIN episodes : AttemptComplete(e, TRUE)
  \/ \E e \in DOMAIN episodes, n \in 1..UrlsPerMessage : JsonComplete(e, "audio", n)
  \/ AudioEvent
  \/ \E type \in MessageTypes : RuntimeMessage(type)

SpecMessage == InitMessage /\ [][NextMessage]_vars

(***************************************************************************)
(* The same widget with the inbox and one message to switch between, one   *)
(* episode and one audio element at a time, and a backend that answers     *)
(* every episode with audio, at a URL that need not be the one it answered *)
(* for the message before.                                                 *)
(***************************************************************************)
InitReplay == InitOn(LivePages, MaxEpisodes, MaxAudio) /\ statusCheck = "done"

NextReplay ==
  \/ \E p \in LivePages, seen \in BOOLEAN : Navigate(p, seen)
  \/ IntervalTick
  \/ CheckTimerFire
  \/ AutoReadTimerFire
  \/ IconClick
  \/ \E e \in DOMAIN episodes, xhr \in XhrOutcomes : ProbeComplete(e, "ok", xhr)
  \/ \E e \in DOMAIN episodes : AttemptComplete(e, TRUE)
  \/ \E e \in DOMAIN episodes, n \in 1..FreshUrls : JsonComplete(e, "audio", n)
  \/ AudioEvent

SpecReplay == InitReplay /\ [][NextReplay]_vars

(***************************************************************************)
(* The extractor alone: getSubject, getSender, getBody, isMessageOpen and  *)
(* getCurrentEmailId called on a page that Gmail may replace by another.   *)
(* Here the variable dom holds the DOM itself (no name of Pages), the      *)
(* widget is as createSumurfyWidget left it, and last.sent holds what the  *)
(* last two calls of the same function returned.                           *)
(***************************************************************************)
\* the character classes of a raw text
Chars == {"a", "sp", "nbsp", "nl", "ctl", "zwsp", "bom"}

Texts == UNION {[1..k -> Chars] : k \in 0..TextLen}

\* a page whose heading, sender name and body hold the same raw text
SameTextPage(t) ==
  [h2 |-> <<t>>, aria |-> NoEl,
   gd |-> <<[name |-> <<t>>, email |-> <<>>, hover |-> <<>>, text |-> t]>>,
   a3s |-> <<t>>, th |-> <<>>, mid |-> <<>>]

TextPages == {SameTextPage(t) : t \in Texts}

\* h2.hP and the ARIA heading: absent, or present with its text
Headings == {NoEl, <<<<>>>>, <<<<"a">>>>}

AriaHeadings == {NoEl, <<<<"b">>>>}

\* span.gD: absent; with name and email attributes; with empty name and
\* email attributes, a hovercard id and a text
Senders ==
  {NoEl,
   <<[name |-> <<Tx("x")>>, email |-> <<Tx("e")>>, hover |-> <<>>, text |-> Tx("x")]>>,
   <<[name |-> <<<<>>>>, email |-> <<<<>>>>, hover |-> <<Tx("h")>>, text |-> Tx("y")]>>}

\* the div.a3s nodes: none, one without text, one with text
Bodies == {<<>>, <<<<>>>>, <<Tx("a")>>}

\* the th and message_id parameters of location.search
ThParams == {<<>>, <<Tx("t")>>}

MidParams == {<<>>, <<Tx("m")>>}

DomSet ==
  [h2 : Headings, aria : AriaHeadings, gd : Senders, a3s : Bodies,
   th : ThParams, mid : MidParams]

\* what the last calls of function call returned, the latest last
Returned(call) == SelectSeq(last.sent, LAMBDA r : r.call = call)

\* the function call returns value: the history keeps it after the value
\* its previous call returned, if no other handler ran in between
Return(w, call, value) ==
  LET before == Returned(call) IN
  [w EXCEPT !.sent = (IF before = <<>> THEN <<>> ELSE <<before[Len(before)]>>)
                       \o <<[call |-> call, value |-> value]>>]

\* mutant: getBody detaches the div.a3s nodes it has read
emailData_DetachesBody(w) ==
  Return([w EXCEPT !.dom.a3s = <<>>], "emailData",
         [subject |-> getSubject(w.dom), sender |-> getSender(w.dom),
          body |-> getBody(w.dom)])

\* const subject = getSubject(); const sender = getSender();
\* const body = getBody(); as autoReadCurrentEmail and the message listener
\* call them
emailData(w) ==
  Return(w, "emailData",
         [subject |-> getSubject(w.dom), sender |-> getSender(w.dom),
          body |-> getBody(w.dom)])

InitExtract ==
  /\ dom \in DomSet \cup TextPages
  /\ currentEmailId = getCurrentEmailId(dom)
  /\ active = FALSE
  /\ loading = FALSE
  /\ progress = 0
  /\ glyph = "speaker"
  /\ download = FALSE
  /\ speechData = <<>>
  /\ currentAudio = 0
  /\ isPlaying = FALSE
  /\ isPaused = FALSE
  /\ audios = [a \in 1..MaxAudio |-> FreeAudio]
  /\ episodes = [e \in 1..MaxEpisodes |-> FreeEp]
  /\ autoTimers = IF isMessageOpen(dom) THEN 1 ELSE 0
  /\ checkTimers = 0
  /\ statusCheck = "done"
  /\ last = [log |-> <<>>, ep |-> FreeEp, checked |-> FALSE, sent |-> <<>>]
  /\ BackgroundAtRest

Extract == Commit(emailData(Cur))

DetectOpen == Commit(Return(Cur, "isMessageOpen", isMessageOpen(dom)))

SampleIdentity == Commit(Return(Cur, "getCurrentEmailId", getCurrentEmailId(dom)))

\* Gmail replaces the page by another
PageChanges(d) ==
  /\ dom \in DomSet
  /\ d # dom
  /\ Commit([Cur EXCEPT !.dom = d])

NextExtract ==
  \/ Extract
  \/ DetectOpen
  \/ SampleIdentity
  \/ \E d \in DomSet : PageChanges(d)

SpecExtract == InitExtract /\ [][NextExtract]_vars

(***************************************************************************)
(* The background script from its installation, the tabs.query of the      *)
(* onInstalled listener outstanding, in a build whose manifest declares    *)
(* the content script or does not; the widget is left as it was created.   *)
(***************************************************************************)
InitBackground ==
  /\ InitWidget({"inbox"}, MaxEpisodes, MaxAudio)
  /\ statusCheck = "done"
  /\ injectedTabs = {}
  /\ tabs = [t \in Tabs |-> ClosedTab]
  /\ chains = [t \in Tabs |-> NoChains]
  /\ queryPending = TRUE
  /\ declared \in BOOLEAN

NextBackground ==
  \/ \E t \in Tabs, gmail \in BOOLEAN : TabLoads(t, gmail)
  \/ \E t \in Tabs : SameDocumentNavigation(t)
  \/ \E t \in Tabs : PageIdle(t)
  \/ \E t \in Tabs : DeclaredScriptRuns(t)
  \/ \E t \in Tabs : TabComplete(t)
  \/ QueryAnswered
  \/ \E t \in Tabs : CreateWidgetMessage(t)
  \/ \E t \in Tabs : TabRemoved(t)
  \/ \E added \in Tabs, removed \in Tabs, gmail \in BOOLEAN :
        TabReplaced(added, removed, gmail)
  \/ \E t \in Tabs, ok \in BOOLEAN : CssInserted(t, ok)
  \/ \E t \in Tabs, ok \in BOOLEAN : ScriptExecuted(t, ok)
  \/ \E t \in Tabs : ChainResolved(t)

SpecBackground == InitBackground /\ [][NextBackground]_vars

(***************************************************************************)
(* Vocabulary of the properties.                                           *)
(***************************************************************************)
\* the handler that ran last wrote this line to the console
Logged(line) == \E i \in DOMAIN last.log : last.log[i] = line

\* the same of the step being taken
LoggedNow(line) == \E i \in DOMAIN last'.log : last'.log[i] = line

\* message-change detection observes a new identity in this step
ChangeDetected == currentEmailId' # currentEmailId

\* episode e's response arrives in this step and ends it
ResponseArrives(e) == episodes[e].pc = "json" /\ episodes'[e].pc = "free"

\* the message the cached SpeechResult was made for
CachedFor == speechData[1].audioFile[1]

(***************************************************************************)
(* C1.  At most one summarize episode (a generateSummary call that has     *)
(* started and not finished) is in flight at any time.                     *)
(* Refuted by the code under SpecRace: autoReadCurrentEmail does not look  *)
(* at the loading flag, so an auto-read timer starts a second episode      *)
(* while the one started by a click (or by an earlier timer) is in flight. *)
(***************************************************************************)
C1_AtMostOneEpisodeInFlight == Cardinality(InFlight(episodes)) <= 1

(***************************************************************************)
(* C2.  Stale-response guard: a response that arrives after message-change *)
(* detection has recorded another identity than the one its episode was    *)
(* started for (and the page still shows another message) does not alter   *)
(* the widget: cached SpeechResult, glyph, active/loading flags and        *)
(* download visibility stay as the message-change transition left them.    *)
(* Refuted by the code: generateSummary keeps no identity and applies      *)
(* every response.                                                         *)
(***************************************************************************)
C2_StaleResponseDiscarded ==
  [][\A e \in DOMAIN episodes :
       (/\ ResponseArrives(e)
        /\ episodes[e].stale
        /\ episodes[e].id # getCurrentEmailId(Pages[dom]))
       => UNCHANGED <<speechData, glyph, active, loading, download>>]_vars

(***************************************************************************)
(* C3.  When message-change detection observes a new identity the cached   *)
(* SpeechResult is discarded in that step, so that a non-empty cache never *)
(* belongs to another message than the one displayed: right after the step *)
(* the cache is empty (or, at the least, was made for the message now      *)
(* displayed).                                                             *)
(* Refuted by the code: resetWidgetState does not touch window.speechData. *)
(***************************************************************************)
C3_CacheDiscardedOnChange ==
  [][ChangeDetected => (speechData' = <<>> \/ CachedFor' = dom')]_vars

(***************************************************************************)
(* C4.  A message change detected while the widget is Playing or Paused    *)
(* stops playback: the audio element is paused and released, isPlaying and *)
(* isPaused are false, progress is 0 and the icon is neither active nor    *)
(* loading; and afterwards, as long as no new episode has started, the     *)
(* released element does not play and the widget is not Playing.           *)
(* Refuted by the code: the canplay listener of the released element is    *)
(* still attached and calls audio.play().                                  *)
(***************************************************************************)
C4_StoppedOnChange ==
  (ChangeDetected /\ (isPlaying \/ isPaused))
  => /\ currentAudio' = 0
     /\ currentAudio # 0 => ~audios'[currentAudio].playing
     /\ ~isPlaying' /\ ~isPaused'
     /\ progress' = 0
     /\ ~active' /\ ~loading'

C4_ReleasedAudioSilent ==
  \A a \in DOMAIN audios :
    (audios[a].alive /\ audios[a].fresh) => (~audios[a].playing /\ ~isPlaying)

C4_PlaybackStopsOnChange ==
  [][C4_StoppedOnChange /\ C4_ReleasedAudioSilent']_vars

(***************************************************************************)
(* C5.  An open, readable message is summarized automatically: when the    *)
(* auto-read timer (scheduled at page load or by message-change detection) *)
(* fires, the displayed message is open, readable and the one recorded as  *)
(* current, and neither a SpeechResult made for it is cached nor an        *)
(* episode for it is in flight, an episode starts in that step, whatever   *)
(* the widget state was.                                                   *)
(* Refuted by the code because of C3: the SpeechResult of the previous     *)
(* message is still cached and autoReadCurrentEmail returns on it.         *)
(***************************************************************************)
C5_AutoReadStartsEpisode ==
  [][(/\ autoTimers' < autoTimers
      /\ isMessageOpen(Pages[dom])
      /\ currentEmailId = getCurrentEmailId(Pages[dom])
      /\ ~Unreadable(Pages[dom])
      /\ ~(speechData # <<>> /\ CachedFor = dom)
      /\ \A e \in DOMAIN episodes :
           episodes[e].pc = "free" \/ episodes[e].page # dom)
     => \E e \in DOMAIN episodes :
          episodes[e].pc = "free" /\ episodes'[e].pc = "probe"]_vars

(***************************************************************************)
(* C6.  If the health probe of an episode fails, the episode ends there:   *)
(* the widget is Unreachable (neither loading nor active, speaker glyph,   *)
(* download hidden) and the episode has sent no request to /summarize.     *)
(***************************************************************************)
Unreachable == ~loading /\ ~active /\ glyph = "speaker" /\ ~download

C6_ProbeFailureFailsFast ==
  Logged("Connectivity test failed")
  => /\ last.ep.result = "probeFailed"
     /\ last.ep.attempts = 0
     /\ Unreachable

C6_Witness ==
  /\ Logged("Connectivity test failed")
  /\ last.ep.result = "probeFailed"
  /\ last.ep.probes = 1

(***************************************************************************)
(* C7.  An episode makes at most 3 attempts of the summarize call, and an  *)
(* attempt is made only if every earlier attempt of the episode failed     *)
(* (the attempts made are the failures plus one); an episode that ends     *)
(* with audio after 2 failed attempts has made exactly 3 attempts and      *)
(* leaves the widget PlayReady.                                            *)
(***************************************************************************)
PlayReady == ~loading /\ HasAudioFile(Cur) /\ glyph = "play" /\ download

\* let retries = 3 is decremented by each failure
Failures(ep) == 3 - ep.retries

C7_AtMostThreeAttempts ==
  /\ \A e \in InFlight(episodes) :
       /\ episodes[e].attempts <= 3
       /\ episodes[e].pc \in {"attempt", "json"}
            => episodes[e].attempts = Failures(episodes[e]) + 1
       /\ episodes[e].pc = "backoff"
            => episodes[e].attempts = Failures(episodes[e])
  /\ last.ep.attempts <= 3
  /\ (last.ep.result = "audio" /\ Failures(last.ep) = 2)
       => (last.ep.attempts = 3 /\ PlayReady)

C7_Witness ==
  last.ep.result = "audio" /\ Failures(last.ep) = 2 /\ last.ep.attempts = 3

(***************************************************************************)
(* C8.  The back-off waited after the k-th failed attempt is 2^(k-1)       *)
(* seconds (1 s after the first, 2 s after the second), and none is waited *)
(* after the third.                                                        *)
(* Refuted by the code: Math.pow(2, 3 - retries) is computed after         *)
(* retries--, so the waits are 2 s and 4 s.                                *)
(***************************************************************************)
C8_BackoffDelays ==
  \A e \in DOMAIN episodes :
    episodes[e].pc = "backoff"
    => /\ episodes[e].attempts < 3
       /\ episodes[e].delay = Pow2(episodes[e].attempts - 1)

(***************************************************************************)
(* C9.  If autoReadCurrentEmail extracts an empty subject, sender name and *)
(* body, on the click path and on the automatic path alike, no episode is  *)
(* started (no probe, no summarize request) and the icon is left neither   *)
(* active nor loading.                                                     *)
(***************************************************************************)
C9_ExtractionEmptySkipsPipeline ==
  [][(LoggedNow("Auto-generating summary") /\ Unreadable(Pages[dom']))
     => /\ episodes' = episodes
        /\ ~LoggedNow("Starting summary generation")
        /\ ~active' /\ ~loading']_vars

C9_Witness ==
  /\ Logged("First click")
  /\ Logged("Could not read this email")
  /\ Unreadable(Pages[dom])
  /\ ~active /\ ~loading

(***************************************************************************)
(* C10.  When an episode is answered success with speech.audioFile, the    *)
(* widget is PlayReady right after: loading is cleared, the cached         *)
(* SpeechResult holds exactly that URL, the play glyph is rendered and the *)
(* download action is visible.                                             *)
(***************************************************************************)
C10_AudioResponseGivesPlayReady ==
  last.ep.result = "audio"
  => /\ ~loading
     /\ last.ep.url # NoUrl
     /\ speechData = <<[audioFile |-> last.ep.url]>>
     /\ glyph = "play"
     /\ download

C10_Witness ==
  last.ep.result = "audio" /\ speechData # <<>> /\ last.ep.url = Url(dom, 1)

(***************************************************************************)
(* C11.  Every backend failure of an episode (probe failed, retries        *)
(* exhausted, response that is no JSON, success flag false) leaves the     *)
(* widget Unreachable right after: loading and active cleared, speaker     *)
(* glyph, progress 0, download hidden, and no SpeechResult cached; when    *)
(* all attempts failed the error surfaced is that of the last attempt.     *)
(* Refuted by the code under SpecRace because of C1: the failure handling  *)
(* never touches window.speechData, and a concurrent episode may have      *)
(* cached a SpeechResult before this one fails.                            *)
(***************************************************************************)
BackendFailures == {"probeFailed", "exhausted", "throws", "rejected"}

C11_FailureGivesUnreachable ==
  last.ep.result \in BackendFailures
  => /\ Unreachable
     /\ progress = 0
     /\ speechData = <<>>
     /\ last.ep.result = "exhausted" => last.ep.lastError = last.ep.attempts

(***************************************************************************)
(* C12.  Right after an episode was answered success without an audio URL  *)
(* (NoAudio) no SpeechResult is cached and the icon is not loading, and a  *)
(* click on the control then (a readable message being open) starts a new  *)
(* episode, as a click in Idle does.                                       *)
(* Refuted by the code: the success path removes only the loading class,   *)
(* the icon stays active, and handleIconClick hands the click to           *)
(* handlePlayPause, which returns at once for want of a SpeechResult.      *)
(***************************************************************************)
\* some generateSummary call starts in this step
EpisodeStarts ==
  \E e \in DOMAIN episodes : episodes[e].pc = "free" /\ episodes'[e].pc = "probe"

Readable == isMessageOpen(Pages[dom]) /\ ~Unreadable(Pages[dom])

C12_NoAudioIsIdle ==
  [][last.ep.result = "noAudio"
     => /\ speechData = <<>>
        /\ ~loading
        /\ (LoggedNow("Icon clicked") /\ Readable) => EpisodeStarts]_vars

(***************************************************************************)
(* C13.  A click on the control while the icon is neither active nor       *)
(* loading (Idle or Unreachable) and a readable message is open clears the *)
(* cached SpeechResult, makes the widget Requesting (active and loading    *)
(* set) and starts exactly one episode, which has sent one health probe;   *)
(* with no readable message open such a click starts no episode.           *)
(***************************************************************************)
Started == {e \in DOMAIN episodes : episodes[e].pc = "free" /\ episodes'[e].pc = "probe"}

IdleClick == LoggedNow("Icon clicked") /\ ~active /\ ~loading

IdleClickStartsEpisode ==
  /\ speechData' = <<>>
  /\ active' /\ loading'
  /\ Cardinality(Started) = 1
  /\ \A e \in Started : episodes'[e].probes = 1 /\ episodes'[e].attempts = 0
  /\ \A e \in DOMAIN episodes \ Started : episodes'[e] = episodes[e]

C13_IdleClickStartsEpisode ==
  [][IdleClick => IF Readable THEN IdleClickStartsEpisode ELSE Started = {}]_vars

C13_Witness ==
  /\ Logged("First click")
  /\ Logged("Starting summary generation")
  /\ active /\ loading /\ speechData = <<>>
  /\ Cardinality(InFlight(episodes)) = 1

\* the statement without the condition that a readable message is open
C13_AnyIdleClickStartsEpisode ==
  [][IdleClick => IdleClickStartsEpisode]_vars

(***************************************************************************)
(* C14.  Clicks toggle playback: a click in PlayReady starts playback      *)
(* (Playing), a click in Playing pauses it (Paused), a click in Paused     *)
(* resumes it (Playing), and none of these clicks starts an episode or     *)
(* changes the cached SpeechResult.                                        *)
(* Refuted by the code because of C2 and C4: handleIconClick decides on    *)
(* the active class alone, and a stale response (C2) or the canplay of a   *)
(* released element (C4) shows PlayReady or Playing on an icon that is not *)
(* active; the click then clears the SpeechResult and starts over.         *)
(***************************************************************************)
Playing == isPlaying /\ ~isPaused /\ glyph = "pause"

Paused == isPaused /\ ~isPlaying /\ glyph = "play"

NoBackendEffect == speechData' = speechData /\ episodes' = episodes

C14_ClickToggles ==
  /\ (PlayReady /\ ~isPlaying /\ ~isPaused)
       => (Playing' /\ currentAudio' # 0 /\ audios'[currentAudio'].playing
           /\ NoBackendEffect)
  /\ Playing => (Paused' /\ NoBackendEffect)
  /\ Paused => (Playing' /\ NoBackendEffect)

C14_ClicksTogglePlayback ==
  [][LoggedNow("Icon clicked") => C14_ClickToggles]_vars

(***************************************************************************)
(* C15.  Right after the ended event of an audio element that was playing  *)
(* the widget is Idle: isPlaying and isPaused are false, the icon is not   *)
(* active, the progress is 0 and the download action is visible.           *)
(***************************************************************************)
C15_EndOfStreamGivesIdle ==
  Logged("Audio playback ended")
  => /\ ~isPlaying /\ ~isPaused
     /\ ~active
     /\ progress = 0
     /\ download

C15_Witness ==
  /\ Logged("Audio playback ended")
  /\ currentAudio # 0
  /\ audios[currentAudio].pos = Duration
  /\ ~audios[currentAudio].playing
  /\ glyph = "speaker"

(***************************************************************************)
(* C16.  Right after an error event of an audio element, in any state, the *)
(* widget is Unreachable: the cached SpeechResult is discarded, the        *)
(* download action is hidden, the icon is neither active nor loading and   *)
(* isPlaying and isPaused are false.                                       *)
(* Refuted by the code: the error listener leaves window.speechData (and   *)
(* window.currentAudio) as they are.                                       *)
(***************************************************************************)
C16_AudioErrorGivesUnreachable ==
  Logged("Audio error")
  => /\ speechData = <<>>
     /\ ~download
     /\ ~active /\ ~loading
     /\ ~isPlaying /\ ~isPaused

(***************************************************************************)
(* C17.  A click on the control while the icon has the loading class is    *)
(* ignored: it starts no episode and sends no request, schedules nothing,  *)
(* and leaves the cached SpeechResult, the audio handle and the audio      *)
(* elements, isPlaying and isPaused, and the icon (classes, glyph,         *)
(* progress, download action) unchanged.                                   *)
(***************************************************************************)
C17_ClickWhileLoadingIgnored ==
  [][(LoggedNow("Icon clicked") /\ loading)
     => UNCHANGED <<speechData, currentAudio, audios, isPlaying, isPaused,
                    active, loading, glyph, progress, download,
                    episodes, autoTimers, checkTimers, currentEmailId,
                    statusCheck>>]_vars

C17_Witness ==
  /\ Logged("Icon clicked")
  /\ loading
  /\ InFlight(episodes) # {}

(***************************************************************************)
(* C18.  Message-change detection is idempotent: when checkForEmailChange  *)
(* runs (from the interval timer or from a timer of the mutation observer) *)
(* and the identity it samples equals the recorded one, nothing happens:   *)
(* no reset, no auto-read scheduled, no program variable changed (but the  *)
(* count of pending observer timers, when one of them was the caller).     *)
(***************************************************************************)
C18_SameIdentityIsNoOp ==
  [][(last'.checked /\ currentEmailId = getCurrentEmailId(Pages[dom]))
     => /\ UNCHANGED <<dom, currentEmailId, active, loading, progress, glyph,
                       download, speechData, currentAudio, isPlaying, isPaused,
                       audios, episodes, autoTimers, statusCheck>>
        /\ checkTimers' \in {checkTimers, checkTimers - 1}
        /\ ~LoggedNow("Email change detected")]_vars

\* a check that found the identity unchanged, in a state a reset would alter
C18_Witness ==
  /\ last.checked
  /\ ~Logged("Email change detected")
  /\ currentEmailId = getCurrentEmailId(Pages[dom])
  /\ active /\ isPlaying /\ HasAudioFile(Cur) /\ currentAudio # 0

(***************************************************************************)
(* C19.  There is a single audio-playback handle: at any time at most one  *)
(* audio element created by the widget is playing, and when a new element  *)
(* is created every earlier one has been stopped.                          *)
(* Refuted by the code under SpecAudio because of C4: an element released  *)
(* by a message change starts playing on its canplay event, nothing refers *)
(* to it any more, and handlePlayPause creates the next element beside it. *)
(***************************************************************************)
NowPlaying == {a \in DOMAIN audios : audios[a].alive /\ audios[a].playing}

C19_SingleAudioHandle == Cardinality(NowPlaying) <= 1

(***************************************************************************)
(* C20.  The widget state (glyph, active and loading classes, download     *)
(* action, cached SpeechResult, isPlaying and isPaused) changes only on    *)
(* clicks, extraction results, backend answers of an episode, audio events *)
(* and message-change detection: the steps of the startup server-status    *)
(* check leave it unchanged.                                               *)
(* Refuted by the code under SpecStatus: the answer of the status check    *)
(* draws a check mark into the icon when the server is down and calls      *)
(* updateIconToSpeaker, which also hides the download action, when it is   *)
(* up.                                                                     *)
(***************************************************************************)
C20_StatusCheckLeavesWidget ==
  [][statusCheck' # statusCheck
     => UNCHANGED <<glyph, active, loading, download, speechData,
                    isPlaying, isPaused>>]_vars

(***************************************************************************)
(* C21.  Extraction never fails on a missing field: on a page where no     *)
(* selector candidate of a field resolves (no h2.hP and no ARIA heading;   *)
(* no span.gD; no div.a3s), getSubject, getSender().name,                  *)
(* getSender().email and getBody return the empty string: never null or    *)
(* undefined, and no exception leaves the function.                        *)
(***************************************************************************)
Extracted == Returned("emailData") # <<>>

\* what the last call of getSubject, getSender and getBody returned
Output == Returned("emailData")[Len(Returned("emailData"))].value

C21_MissingFieldIsEmpty ==
  Extracted =>
    /\ (dom.h2 = NoEl /\ dom.aria = NoEl) => Output.subject = <<>>
    /\ dom.gd = NoEl => (Output.sender.name = <<>> /\ Output.sender.email = <<>>)
    /\ dom.a3s = <<>> => Output.body = <<>>
    /\ {Output.subject, Output.sender.name, Output.sender.email, Output.body}
         \cap NotAString = {}

\* all three fields are missing and have been extracted
C21_Witness ==
  /\ Extracted
  /\ dom.h2 = NoEl /\ dom.aria = NoEl /\ dom.gd = NoEl /\ dom.a3s = <<>>
  /\ Output = [subject |-> <<>>, sender |-> [name |-> <<>>, email |-> <<>>],
                body |-> <<>>]

(***************************************************************************)
(* C22.  Each field is taken from an ordered list of candidates and the    *)
(* first candidate with a non-empty trimmed text wins: when an earlier     *)
(* candidate resolves to an element (or attribute) with empty text and a   *)
(* later one to a non-empty text, the field is the later one's text        *)
(* (subject: h2.hP, then the ARIA heading; sender name: the name           *)
(* attribute, then the element's text; sender email: the email attribute,  *)
(* then the hovercard id).                                                 *)
(* Refuted by the code for the subject: getSubject takes                   *)
(* querySelector("h2.hP") || querySelector(ARIA heading), and an h2.hP     *)
(* element is truthy whatever its text, so the ARIA heading is never       *)
(* looked at once h2.hP exists.                                            *)
(***************************************************************************)
\* the candidate is there and its trimmed text is empty
EmptyCandidate(c) == c # <<>> /\ Trim(c[1]) = <<>>

\* the candidate is there and its trimmed text is not empty
FilledCandidate(c) == c # <<>> /\ Trim(c[1]) # <<>>

C22_FirstNonEmptyCandidateWins ==
  Extracted =>
    /\ (EmptyCandidate(dom.h2) /\ FilledCandidate(dom.aria))
         => Output.subject = Trim(dom.aria[1])
    /\ (dom.gd # NoEl /\ EmptyCandidate(dom.gd[1].name)
         /\ FilledCandidate(<<dom.gd[1].text>>))
         => Output.sender.name = Trim(dom.gd[1].text)
    /\ (dom.gd # NoEl /\ EmptyCandidate(dom.gd[1].email)
         /\ FilledCandidate(dom.gd[1].hover))
         => Output.sender.email = Trim(dom.gd[1].hover[1])

(***************************************************************************)
(* C23.  Text normalization is the same function for subject, sender name  *)
(* and body: whatever the raw text, each field's cleaner strips the        *)
(* control characters, strips the zero-width characters, turns             *)
(* non-breaking spaces into spaces, collapses every run of white space to  *)
(* one space and trims the ends.                                           *)
(* Refuted by the code: only getBody has .replace(/\s+/g, ' '); getSubject *)
(* and getSender keep a run of spaces inside the text as it is.            *)
(***************************************************************************)
\* the normalization the five steps describe
Normalize(t) ==
  Trim(CollapseSpaces(ReplaceNbsp(RemoveZeroWidth(RemoveControl(t)))))

C23_SameNormalization ==
  (Extracted /\ dom \in TextPages) =>
    /\ Output.subject = Normalize(dom.h2[1])
    /\ Output.sender.name = Normalize(dom.h2[1])
    /\ Output.body = Normalize(dom.h2[1])

(***************************************************************************)
(* C24.  Extraction is idempotent and free of hidden mutation: getSubject, *)
(* getSender and getBody run twice on an unchanged DOM return the same     *)
(* output, and running them changes neither the DOM nor any variable of    *)
(* the widget.                                                             *)
(***************************************************************************)
\* the step being taken is a call of this function
ReturnsNow(call) == Returned(call)' # <<>>

\* the two latest calls of the function returned the same value
SameTwice(call) == Len(Returned(call)) = 2 => Returned(call)[1] = Returned(call)[2]

C25_EveryMessageAnswered ==
  [][/\ LoggedNow("Message received: PING")
        => last'.sent = <<[ok |-> TRUE, message |-> "Content script is loaded"]>>
     /\ LoggedNow("Message received: EXTRACT_EMAIL")
        => /\ Len(last'.sent) = 1
           /\ IF ~isMessageOpen(Pages[dom]) \/ Unreadable(Pages[dom])
              THEN ~last'.sent[1].ok /\ DOMAIN last'.sent[1] = {"ok", "error"}
              ELSE last'.sent[1] =
                     [ok |-> TRUE,
                      data |-> [subject |-> getSubject(Pages[dom]),
                                sender |-> getSender(Pages[dom]),
                                body |-> getBody(Pages[dom])]]
     /\ (LoggedNow("Message received: PING")
           \/ LoggedNow("Message received: EXTRACT_EMAIL"))
        => UNCHANGED <<dom, currentEmailId, active, loading, progress, glyph,
                       download, speechData, currentAudio, isPlaying, isPaused,
                       audios, episodes, autoTimers, checkTimers, statusCheck>>
    ]_vars

\* an EXTRACT_EMAIL message was answered with the extraction while an
\* episode was in flight
C25_Witness ==
  /\ Logged("Message received: EXTRACT_EMAIL")
  /\ last.sent[1].ok
  /\ loading /\ InFlight(episodes) # {}

(***************************************************************************)
(* C26.  The retry loop counts an attempt as successful only if it returns *)
(* HTTP 2xx with a JSON body whose success flag is truthy: an attempt      *)
(* answered with HTTP 2xx and a falsy success flag is retried while        *)
(* attempts remain, so an episode ends on such an answer only with its     *)
(* third attempt.                                                          *)
(* Refuted by the code: the loop breaks on response.ok alone; the body is  *)
(* read and its success flag tested after the loop, where nothing is       *)
(* retried.                                                                *)
(***************************************************************************)
C26_RejectedAnswerIsRetried ==
  last.ep.result = "rejected" => last.ep.attempts = 3

(***************************************************************************)
(* C27.  Each summarize episode performs a single reachability probe:      *)
(* exactly one request is sent to the health endpoint per episode,         *)
(* whatever its outcome, before the episode fails or goes on to the        *)
(* summarize call.                                                         *)
(***************************************************************************)
C27_SingleProbe ==
  /\ \A e \in InFlight(episodes) : episodes[e].probes = 1
  /\ last.ep.pc # "free" => last.ep.probes = 1

\* an episode has ended on a probe that was answered with an error status,
\* after which the XMLHttpRequest fallback was tried
C27_Witness ==
  /\ last.ep.result = "probeFailed"
  /\ Logged("Trying XMLHttpRequest fallback")
  /\ last.ep.probes = 1 /\ last.ep.attempts = 0

(***************************************************************************)
(* C28.  Every summarize episode terminates, provided every network        *)
(* request eventually completes: an episode in flight eventually ends,     *)
(* having sent at most one probe and three summarize attempts; when it     *)
(* ends the loading flag is cleared (the widget has left Requesting), an   *)
(* answer with audio has made the widget PlayReady and any failure         *)
(* Unreachable; and every error of the episode is handled by               *)
(* generateSummary's catch block, none leaves it uncaught.  For the answer *)
(* without audio, which the specification treats as PlayReady without      *)
(* audio, the cleared loading flag is all that is stated here: what that   *)
(* state is worth is the subject of C12.                                   *)
(***************************************************************************)
\* the handler that ran last ended an episode
EpisodeEnded == last.ep.pc # "free"

EpisodeSettled ==
  EpisodeEnded =>
    /\ ~loading
    /\ last.ep.probes <= 1 /\ last.ep.attempts <= 3
    /\ last.ep.result \in {"audio", "noAudio"} \cup BackendFailures
    /\ last.ep.result = "audio" => PlayReady
    /\ last.ep.result \in BackendFailures => Unreachable

OpenDetected == Returned("isMessageOpen")[Len(Returned("isMessageOpen"))].value

C29_OpenIffSelectorResolves ==
  Returned("isMessageOpen") # <<>> =>
    /\ OpenDetected <=> (dom.h2 # NoEl \/ dom.aria # NoEl \/ dom.a3s # <<>>)
    /\ (getSubject(dom) # <<>> \/ getBody(dom) # <<>>) => OpenDetected

(***************************************************************************)
(* C30.  The message identity is 'no-email' when no message is open;       *)
(* otherwise the URL query parameter th (else message_id) when present;    *)
(* otherwise the text subject-sender when both the subject and the sender  *)
(* element exist.  Recomputing it has no side effect and gives the same    *)
(* token on an unchanged page, and a displayed message that differs from   *)
(* the one displayed before it yields a different token.                   *)
(* Refuted by the code in its last part: two different messages get the    *)
(* same token when they share the URL parameter, when (without one) they   *)
(* share subject and sender text, and when (without one) the subject or    *)
(* the sender element is missing, which gives 'no-email' for both.         *)
(***************************************************************************)
\* what the last call of getCurrentEmailId returned
Token == Returned("getCurrentEmailId")[Len(Returned("getCurrentEmailId"))].value

\* the token the three rules give for page d
IdentityRule(d) ==
  IF ~isMessageOpen(d) THEN Token = NoEmail
  ELSE IF d.th # <<>> /\ d.th[1] # <<>> THEN Token = d.th[1]
  ELSE IF d.mid # <<>> /\ d.mid[1] # <<>> THEN Token = d.mid[1]
  ELSE (SubjectEl(d) # NoEl /\ d.gd # NoEl)
         => Token = Trim(SubjectEl(d)[1]) \o <<"-">> \o Trim(d.gd[1].text)

\* the page displays a message with its heading and its sender
Displayed(d) == isMessageOpen(d) /\ SubjectEl(d) # NoEl /\ d.gd # NoEl

\* both pages display a message, and not the same one
AnotherMessage(d1, d2) ==
  /\ Displayed(d1) /\ Displayed(d2)
  /\ Extraction(d1) # Extraction(d2)

C30_IdentityOfMessage ==
  [][/\ ReturnsNow("getCurrentEmailId")
        => /\ IdentityRule(dom)'
           /\ SameTwice("getCurrentEmailId")'
           /\ UNCHANGED <<dom, currentEmailId, active, loading, progress, glyph,
                          download, speechData, currentAudio, isPlaying,
                          isPaused, audios, episodes, autoTimers, checkTimers,
                          statusCheck>>
     /\ AnotherMessage(dom, dom')
        => getCurrentEmailId(dom') # getCurrentEmailId(dom)
    ]_vars

(***************************************************************************)
(* C31.  The progress indicator is purely observational: a timeupdate      *)
(* event of an audio element (the step in which the element's currentTime  *)
(* has advanced) changes only the progress indicator, whose value          *)
(* currentTime/duration lies in [0,1], and leaves the active and loading   *)
(* flags, the glyph, the download visibility, the cached SpeechResult, the *)
(* audio handle and the playing/paused flags as they were.                 *)
(***************************************************************************)
\* the elements whose timeupdate listener runs in this step
TimeUpdated == {a \in DOMAIN audios : audios'[a].alive /\ audios'[a].pos > audios[a].pos}

C31_ProgressIsObservational ==
  [][\A a \in TimeUpdated :
       /\ progress' = audios'[a].pos
       /\ 0 <= progress' /\ progress' <= Duration
       /\ UNCHANGED <<active, loading, glyph, download, speechData, currentAudio,
                      isPlaying, isPaused, episodes, currentEmailId>>]_vars

\* a timeupdate of an element that is not the audio handle has drawn the
\* progress of a file that plays to its end
C31_Witness ==
  \E a \in DOMAIN audios :
    /\ audios[a].alive /\ audios[a].pos = Duration /\ a # currentAudio
    /\ progress = Duration
    /\ last.log = <<>>

(***************************************************************************)
(* C32.  The background script prevents duplicate injection: for any tab   *)
(* id, between two removals of the id from injectedTabs, injectWidget is   *)
(* started at most once (an injection whose promise chain failed not       *)
(* counted), also when the onInstalled query, onUpdated(complete) and      *)
(* CREATE_WIDGET events for the tab arrive before the promise chain of an  *)
(* earlier injection has completed.                                        *)
(* Refuted by the code: the id is added to injectedTabs in the last .then  *)
(* of the chain, so every event that arrives before it starts another      *)
(* injection.                                                              *)
(***************************************************************************)
C32_NoDuplicateInjection == \A t \in Tabs : tabs[t].starts <= 1

(***************************************************************************)
(* C33.  Whenever a tab whose URL contains mail.google.com reports status  *)
(* complete, the content script is eventually present in the page then     *)
(* loaded in the tab: the background script injects it unless it is        *)
(* already present in that page, also after the tab is reloaded or         *)
(* navigated again.  As a step property: right after the report the script *)
(* has run in the page, or an injection for the tab is in flight, or the   *)
(* browser is still to run the script the manifest declares.               *)
(* Refuted by the code where the manifest declares no content script:      *)
(* injectedTabs holds tab ids, a reload removes nothing from it, and the    *)
(* onUpdated listener skips the tab whose new page has no content script.  *)
(***************************************************************************)
\* content.js has run in the page tab t shows
Present(t) == tabs[t].page.loaded

InjectionPending(t) == InFlightChains(chains[t]) > 0

DeclaredPending(t) == declared /\ ~tabs[t].page.declaredRan

\* tab t, showing a Gmail page, reports status complete in this step
ReportsComplete(t) ==
  /\ tabs[t].status = "loading"
  /\ tabs'[t].open /\ tabs'[t].gmail /\ tabs'[t].status = "complete"

C33_CompleteTabGetsScript ==
  [][\A t \in Tabs :
       ReportsComplete(t) => (Present(t)' \/ InjectionPending(t)' \/ DeclaredPending(t)')]_vars

(***************************************************************************)
(* C34.  However many times the content script is executed in a page,      *)
(* exactly one widget instance exists: at most one #sumurfy-widget         *)
(* element, one set of click listeners, one change-detection timer and one *)
(* mutation observer are created (exactly one of each in a Gmail page),    *)
(* because every execution after the first stops before initialization.    *)
(***************************************************************************)
\* what the executions of content.js have created in page pg, each n times
Created(pg, n) ==
  /\ pg.widgets = n /\ pg.clickListeners = n
  /\ pg.intervals = n /\ pg.observers = n

C34_OneWidgetInstance ==
  \A t \in Tabs :
    tabs[t].page.runs >= 1
    => /\ tabs[t].page.loaded
       /\ tabs[t].page.messageListeners = 1
       /\ IF tabs[t].gmail THEN Created(tabs[t].page, 1) ELSE Created(tabs[t].page, 0)

\* content.js has been executed three times in one Gmail page
C34_Witness ==
  \E t \in Tabs :
    tabs[t].gmail /\ tabs[t].page.runs >= 3 /\ Created(tabs[t].page, 1)

(***************************************************************************)
(* C35.  autoReadCurrentEmail issues no backend request and changes no     *)
(* icon flag when no message is open or when a SpeechResult with an audio  *)
(* URL is cached: on the automatic path (an auto-read timer fires) the     *)
(* widget is left as it was, on the click path the flags are what          *)
(* handleIconClick set before the call; audio that is available is never   *)
(* regenerated by the automatic path.                                      *)
(***************************************************************************)
\* autoReadCurrentEmail has returned at one of its first two tests
AutoReadReturnsEarly ==
  LoggedNow("No email open") \/ LoggedNow("Audio already available")

\* the callback of an auto-read timer runs in this step
AutoReadTimerFires == autoTimers' < autoTimers

WidgetUntouched ==
  UNCHANGED <<active, loading, progress, glyph, download, speechData, currentAudio,
              isPlaying, isPaused, audios, episodes, currentEmailId>>

C35_AutoReadSkips ==
  [][/\ AutoReadReturnsEarly
          => /\ episodes' = episodes
             /\ IF LoggedNow("Icon clicked")
                THEN /\ active' /\ loading'
                     /\ UNCHANGED <<progress, glyph, download, currentAudio,
                                    isPlaying, isPaused, audios>>
                ELSE WidgetUntouched
     /\ (AutoReadTimerFires /\ (~isMessageOpen(Pages[dom]) \/ HasAudioFile(Cur)))
          => (WidgetUntouched /\ (isMessageOpen(Pages[dom]) => AutoReadReturnsEarly))
    ]_vars

\* an auto-read timer has fired on an open message while audio was cached
C35_Witness ==
  /\ Logged("Audio already available")
  /\ isMessageOpen(Pages[dom]) /\ HasAudioFile(Cur)
  /\ InFlight(episodes) = {}

(***************************************************************************)
(* C36.  In every reachable state the flags isPlaying and isPaused are not *)
(* both true, and isPaused is true only if an audio handle                 *)
(* (window.currentAudio) exists.                                           *)
(***************************************************************************)
C36_PlaybackFlagsConsistent ==
  /\ ~(isPlaying /\ isPaused)
  /\ isPaused => currentAudio # 0

\* playback has been paused by a click
C36_Witness ==
  /\ isPaused /\ ~isPlaying /\ currentAudio # 0
  /\ ~audios[currentAudio].playing
  /\ Logged("Icon is active")

(***************************************************************************)
(* C37.  In every reachable state, if the icon carries the loading flag    *)
(* then a summarize episode is in flight: no sequence of events (a click   *)
(* while no message is open included) leaves the icon showing loading with *)
(* no request outstanding.                                                 *)
(* Refuted by the code: handleIconClick adds the classes active and        *)
(* loading before it calls autoReadCurrentEmail, which returns without     *)
(* removing them when no message is open.                                  *)
(***************************************************************************)
C37_LoadingMeansEpisode == loading => InFlight(episodes) # {}

(***************************************************************************)
(* C38.  In every reachable state, if the download action is visible then  *)
(* a SpeechResult with an audio URL is cached, so that a click on a        *)
(* visible download action always starts a download.                       *)
(* Refuted by the code: the ended listener shows the download action and   *)
(* removes the active class; the click that follows clears                 *)
(* window.speechData and leaves the download action displayed.             *)
(***************************************************************************)
C38_VisibleDownloadHasAudio ==
  /\ download => HasAudioFile(Cur)
  /\ ~Logged("No audio file available for download")

(***************************************************************************)
(* C39.  Whenever playback is started or resumed by a click, the audio     *)
(* element that plays was created from the audio URL of the SpeechResult   *)
(* that is cached: an element created from an earlier SpeechResult is not  *)
(* played once the cache has been replaced by a newer one.                 *)
(* Refuted by the code: handlePlayPause plays the element                  *)
(* window.currentAudio refers to whenever there is one, and an answer that *)
(* replaces window.speechData leaves window.currentAudio as it is.         *)
(***************************************************************************)
\* the click handled in this step starts or resumes the playback of element a
ClickPlays(a) ==
  /\ LoggedNow("Icon is active")
  /\ a = currentAudio'
  /\ audios'[a].playing /\ ~audios[a].playing

C39_ClickPlaysCachedAudio ==
  [][\A a \in DOMAIN audios :
       ClickPlays(a)
       => (speechData' # <<>> /\ audios'[a].url = speechData'[1].audioFile)]_vars

====
